---- MODULE Spec2Model ----
(***************************************************************************)
(* Interactive session multiplexer of claude-code-gui                      *)
(* (src-tauri/src/main.rs): the terminal-session registry, the             *)
(* active-output-handlers set, the orchestrator commands (start, resume,   *)
(* write, resize, close, health verification) and the per-session output   *)
(* pump, as concurrently scheduled tokio tasks.                            *)
(*                                                                         *)
(* Commands run on a multi-threaded runtime, so every lock acquisition is  *)
(* a scheduling point.  TERMINAL_SESSIONS is a tokio RwLock: a fair (FIFO) *)
(* lock whose try_read fails while a writer holds it or waits for it.      *)
(* ACTIVE_OUTPUT_HANDLERS is only ever write-locked around code that does  *)
(* not block, so each of its critical sections is one atomic step.         *)
(***************************************************************************)
EXTENDS Integers, Sequences, FiniteSets, TLC

\* ---------------------------------------------------------------- bounds
NumTasks == 2      \* command invocations that can be in flight together
NumIds == 1        \* distinct session identifiers
MaxEntries == 2    \* pty/child pairs created over a run
MaxLines == 3      \* lines a child writes to its pty over a run
MaxRead == 2       \* lines one read of the pty can return
MaxBlocks == 3     \* content blocks of an assistant message
MaxWords == 3      \* words of a free-text line
WordBits == 3      \* width of a token count (u32 in the source)
NumWorkers == 1    \* worker threads of the async runtime (one per core)

Tasks == 1..NumTasks
Ids == 1..NumIds
\* One more session, of another window: no command at hand names its id.
Foreign == NumIds + 1
AllIds == Ids \cup {Foreign}
Entries == 1..MaxEntries
PumpProc(e) == NumTasks + e
Procs == 1..(NumTasks + MaxEntries)

VARIABLES
    sessions,    \* TERMINAL_SESSIONS: id -> entry (0: no entry)
    handlers,    \* ACTIVE_OUTPUT_HANDLERS: set of ids
    rwHeld,      \* guard each task/pump holds on TERMINAL_SESSIONS
    rwQueue,     \* FIFO of waiters on TERMINAL_SESSIONS
    childLock,   \* TerminalSession.child_process mutex: holder task or 0
    child,       \* child process of each entry: "unborn", "running", "exited"
    nEntries,    \* pty/child pairs created so far
    entryId,     \* TerminalSession.id of each entry
    pump,        \* output pump spawned with each entry: [pc, pty]
    pc,          \* position of each command task
    op,          \* the command the task runs
    sid,         \* its session_id
    cur,         \* its local `session`: the entry it has just created
    pre,         \* what its id named when the command was invoked
    solo,        \* no other command has been in flight during this command
    streak,      \* successive undisturbed fast-path resumes per id (0..2)
    closedIds,   \* ids removed by a successful close and not stored since
    ev,          \* what the last step did: a health verdict, a return value
    ptyBuf,      \* output of the child that the pump has not read yet
    ppc,         \* position of the pump inside one turn of its loop
    chunk,       \* the lines of the block the pump has just read
    li,          \* how many lines of the block it has handled
    published,   \* notifications emitted on the outbound channel, in order
    failed,      \* lines on which a todo handler returned an error
    nOut,        \* lines the child has written so far
    line,        \* the line handed to parse_claude_json_event
    out,         \* what the codec returned for it
    currentSessionId,  \* CURRENT_SESSION_ID: the Option<String> in the mutex
    currentLock, \* holder of the CURRENT_SESSION_ID mutex: a task or 0
    xpc,         \* position of each execute_claude_command_streaming task
    xline,       \* the output line that task has handed to the codec
    xarg,        \* the --session-id that task passed to the process
    todosFile,   \* the project's .claude-todos.json: its format and todos
    uuids,       \* Uuid::new_v4() ids handed out so far
    todoEv,      \* what the last todo operation did
    rtProject,   \* the project_path a todo list is persisted and reloaded under
    rtTodos,     \* the todo list handed to the writer
    rtWriter,    \* the writer that persists it
    rtDisk,      \* the .claude-todos.json of each directory
    rtLoaded,    \* what load_project_todos returned afterwards
    lastProcessed,  \* LAST_PROCESSED_CONTENT: the static mut Option<String>
    job,         \* the todo operation each task is in the middle of
    base,        \* the todo file before the operations in flight began
    lastGiven,   \* the chunk of the latest call of the heuristic extractor
    lkHeld,      \* the guard each task or pump holds on each lock
    lkQueue,     \* the FIFO of waiters of each lock
    lkAt         \* the operation each task or pump runs and how far it is

regVars == <<sessions, handlers>>
lockVars == <<rwHeld, rwQueue, childLock>>
procVars == <<child, nEntries, entryId, pump>>
taskVars == <<pc, op, sid, cur, pre, solo>>
histVars == <<streak, closedIds>>
sessVars == <<regVars, lockVars, procVars, taskVars, histVars, ev>>
ioVars == <<ptyBuf, ppc, chunk, li, published, failed, nOut>>
codecVars == <<line, out>>
trackVars == <<currentSessionId, currentLock, xpc, xline, xarg>>
todoVars == <<todosFile, uuids, todoEv>>
pathVars == <<rtProject, rtTodos, rtWriter, rtDisk, rtLoaded>>
raceVars == <<lastProcessed, job, base, lastGiven>>
lkVars == <<lkHeld, lkQueue, lkAt>>
vars == <<sessVars, ioVars, codecVars, trackVars, todoVars, pathVars, raceVars,
          lkVars>>

\* ------------------------------------------------- TERMINAL_SESSIONS lock
\* A lock that excludes nobody: a deliberately wrong version of CanGrant.
CanGrantAlways(mode, h) == TRUE

\* A read guard is granted unless a writer holds the lock; a write guard
\* needs the lock free.
CanGrant(mode, h) ==
    IF mode = "read" THEN \A p \in Procs : h[p] # "write"
    ELSE \A p \in Procs : h[p] = "none"

\* read().await / write().await: immediate when nobody waits and the mode is
\* compatible, otherwise the caller joins the FIFO queue.
ImmediateGrant(mode) == rwQueue = <<>> /\ CanGrant(mode, rwHeld)

RequestLock(p, mode) ==
    /\ IF ImmediateGrant(mode)
       THEN /\ rwHeld' = [rwHeld EXCEPT ![p] = mode]
            /\ rwQueue' = rwQueue
       ELSE /\ rwQueue' = Append(rwQueue, [proc |-> p, mode |-> mode])
            /\ rwHeld' = rwHeld

\* Released permits go to the queue in order; the first waiter that cannot
\* be served blocks the ones behind it.
RECURSIVE Grant(_, _)
Grant(q, h) ==
    IF q = <<>> THEN <<q, h>>
    ELSE IF CanGrant(Head(q).mode, h)
         THEN Grant(Tail(q), [h EXCEPT ![Head(q).proc] = Head(q).mode])
         ELSE <<q, h>>

ReleaseLock(p) ==
    LET g == Grant(rwQueue, [rwHeld EXCEPT ![p] = "none"])
    IN  /\ rwQueue' = g[1]
        /\ rwHeld' = g[2]

\* try_read(): fails while a writer holds the lock or waits for it (a
\* waiting writer has drained the permits).
TryRead == rwQueue = <<>> /\ \A p \in Procs : rwHeld[p] # "write"

\* ------------------------------------------------------ operating system
\* child.try_wait(): Ok(None) while running, Ok(Some) once exited, or Err.
TryWait(st) == IF st = "running" THEN {"running", "err"} ELSE {"exited", "err"}

\* child.kill(): ends a running child; on a child that is already gone it
\* may report an error.
KillOutcomes(st) == IF st = "running" THEN {"ok"} ELSE {"ok", "err"}

\* reader.read(): data while the child runs, end-of-stream once it is gone,
\* or an I/O error.
ReadOutcomes(st) == IF st = "running" THEN {"data", "err"} ELSE {"eof", "err"}

\* ------------------------------------------------ variants of the code
\* Deliberately wrong versions of code fragments defined below; the
\* properties are expected to fail when one of them takes the place of
\* the fragment it imitates.
HealthVerdictLax(w) == w \in {"running", "err"}
WriteProceedsAlways(healthy) == TRUE
RemoveSessionNoop(m, id) == m
CloseResultStrict(found, k) ==
    IF ~found THEN "not_found" ELSE IF k = "ok" THEN "ok" ELSE "kill_error"
UnregisterNoop(hs, id) == hs
TeardownSkipped(e) == IF e = 0 THEN {"none"} ELSE {"nolock"}
UnregisterAll(hs, id) == {}
MergeAppended(all_todos, todos) == all_todos \o todos

\* ------------------------------------------------------- code fragments
\* verify_claude_health: true only on Ok(None) from try_wait.
HealthVerdict(w) == w = "running"

\* verify_claude_health up to try_lock: the registry's try_read succeeds, the
\* id has an entry, and the entry's child mutex is free.
HealthAcquire(e) == TryRead /\ e # 0 /\ childLock[e] = 0

\* sessions.remove(&session_id) / sessions.insert(session_id, session)
RemoveSession(m, id) == [m EXCEPT ![id] = 0]
InsertSession(m, id, e) == [m EXCEPT ![id] = e]

\* if !handlers.contains(&session_id) { insert; spawn }
ShouldSpawn(hs, id) == id \notin hs

\* write_to_terminal goes on to the registry only after a true health check.
WriteProceeds(healthy) == healthy

\* close_terminal_session: Ok(()) whenever the entry was found, whatever
\* kill reported.
CloseResult(found, k) == IF found THEN "ok" ELSE "not_found"

\* handle_pty_output_no_check: the loop goes on only after Ok(n), n > 0.
PumpContinues(r) == r = "data"

\* handlers.remove(&session_id) at the end of a pump.
Unregister(hs, id) == hs \ {id}

\* child.kill() on entry e ends its child.
Killed(ch, e) == [ch EXCEPT ![e] = "exited"]

\* Outcomes of `child_process.try_lock()` followed by `kill()` on entry e
\* (0: the id had no entry, nothing is attempted).
TeardownOutcomes(e) ==
    IF e = 0 THEN {"none"}
    ELSE IF childLock[e] # 0 THEN {"nolock"}
    ELSE KillOutcomes(child[e])

\* ------------------------------------------------------------ bookkeeping
\* Uuid::new_v4(): an identifier nothing in the system mentions yet.
Fresh(i) ==
    /\ sessions[i] = 0
    /\ i \notin handlers
    /\ i \notin closedIds
    /\ \A t \in Tasks : sid[t] # i
    /\ \A e \in Entries : entryId[e] # i

\* The id a start has generated is known to nobody else until it returns.
SecretIds == {sid[t] : t \in {u \in Tasks : op[u] = "start"}}
KnownIds == Ids \ SecretIds

\* What id i names when a command on it is invoked: an id closed and not
\* stored since, a registered session whose child has exited, or anything
\* else.
PreOf(i) ==
    IF i \in closedIds THEN "closed"
    ELSE IF sessions[i] # 0 /\ child[sessions[i]] = "exited" THEN "dead"
    ELSE "any"

NoEv ==
    [t |-> 0, op |-> "none", id |-> 0, ret |-> "none", health |-> "none",
     wait |-> "none", kill |-> "none", had |-> 0, new |-> 0,
     pre |-> "none", solo |-> FALSE]

\* The event of task t's step: the value it returns (ret), the verdict of
\* the health check it completes (health) with what try_wait said (wait),
\* what kill said (kill), and the entry its id named when the step began.
Ev(t, r, h, w, k) ==
    [t |-> t, op |-> op[t], id |-> sid[t], ret |-> r, health |-> h,
     wait |-> w, kill |-> k, had |-> sessions[sid[t]], new |-> cur[t],
     pre |-> pre[t], solo |-> solo[t]]

Verdict(b) == IF b THEN "true" ELSE "false"

Goto(t, l) ==
    /\ pc' = [pc EXCEPT ![t] = l]
    /\ UNCHANGED <<op, sid, cur, pre, solo>>

Return(t) ==
    /\ pc' = [pc EXCEPT ![t] = "idle"]
    /\ op' = [op EXCEPT ![t] = "none"]
    /\ sid' = [sid EXCEPT ![t] = 0]
    /\ cur' = [cur EXCEPT ![t] = 0]
    /\ pre' = [pre EXCEPT ![t] = "none"]
    /\ solo' = [solo EXCEPT ![t] = FALSE]

\* A command is invoked on task t: operation o on id i, continuing at l.
Begin(t, o, i, l) ==
    /\ pc[t] = "idle"
    /\ pc' = [pc EXCEPT ![t] = l]
    /\ ev' = NoEv
    /\ op' = [op EXCEPT ![t] = o]
    /\ sid' = [sid EXCEPT ![t] = i]
    /\ pre' = [pre EXCEPT ![t] = PreOf(i)]
    /\ solo' = [u \in Tasks |->
                  IF u = t THEN \A v \in Tasks \ {t} : pc[v] = "idle"
                  ELSE FALSE]
    /\ streak' = [j \in AllIds |->
                    IF o = "resume" /\ j = i THEN streak[j] ELSE 0]

InitSessions ==
    /\ sessions = [i \in AllIds |-> 0]
    /\ handlers = {}
    /\ rwHeld = [p \in Procs |-> "none"]
    /\ rwQueue = <<>>
    /\ childLock = [e \in Entries |-> 0]
    /\ child = [e \in Entries |-> "unborn"]
    /\ nEntries = 0
    /\ entryId = [e \in Entries |-> 0]
    /\ pump = [e \in Entries |-> [pc |-> "none", pty |-> 0]]
    /\ pc = [t \in Tasks |-> "idle"]
    /\ op = [t \in Tasks |-> "none"]
    /\ sid = [t \in Tasks |-> 0]
    /\ cur = [t \in Tasks |-> 0]
    /\ pre = [t \in Tasks |-> "none"]
    /\ solo = [t \in Tasks |-> FALSE]
    /\ streak = [i \in AllIds |-> 0]
    /\ closedIds = {}
    /\ ev = NoEv
    /\ ptyBuf = <<>>
    /\ ppc = "off"
    /\ chunk = <<>>
    /\ li = 0
    /\ published = <<>>
    /\ failed = {}
    /\ nOut = 0

\* Nothing registered, nothing in flight, no line at the codec.
\* No todo file yet and no todo operation so far.
NoTodoEv ==
    [op |-> "none", saved |-> FALSE, emitted |-> FALSE, incoming |-> <<>>,
     payload |-> <<>>, sessionId |-> 0, projectPath |-> 0, data |-> <<>>]
InitTodos ==
    /\ todosFile = [format |-> "none", todos |-> <<>>]
    /\ uuids = 0
    /\ todoEv = NoTodoEv

\* Nothing persisted through the round trip, no todo operation in flight.
InitPath ==
    /\ rtProject = <<>>
    /\ rtTodos = <<>>
    /\ rtWriter = "none"
    /\ rtDisk = <<>>
    /\ rtLoaded = [state |-> "none", todos |-> <<>>]
InitLocks ==
    /\ lkHeld = <<>>
    /\ lkQueue = <<>>
    /\ lkAt = <<>>
InitRace ==
    /\ lastProcessed = <<"absent">>
    /\ job = <<>>
    /\ base = <<"absent">>
    /\ lastGiven = <<"absent">>

\* No session id recorded yet, nobody at the tracker.
InitTracker ==
    /\ currentSessionId = <<"absent">>
    /\ currentLock = 0
    /\ xpc = [t \in Tasks |-> "idle"]
    /\ xline = [t \in Tasks |-> [form |-> "text", raw |-> <<>>]]
    /\ xarg = [t \in Tasks |-> <<"absent">>]

Init ==
    /\ InitSessions
    /\ InitTracker
    /\ InitTodos
    /\ InitPath
    /\ InitLocks
    /\ InitRace
    /\ line = [form |-> "text", raw |-> <<>>]
    /\ out = [kind |-> "pending"]

\* ------------------------------------------------- start_claude_session
\* A pty pair and a child are created and wrapped in a TerminalSession
\* that task t keeps in its local `session`.
CreateEntry(t, i) ==
    /\ nEntries < MaxEntries
    /\ nEntries' = nEntries + 1
    /\ child' = [child EXCEPT ![nEntries + 1] = "running"]
    /\ entryId' = [entryId EXCEPT ![nEntries + 1] = i]
    /\ cur' = [cur EXCEPT ![t] = nEntries + 1]

\* "Store session" block: insert under the write guard, then drop it.
StoreSession(t) ==
    /\ rwHeld[t] = "write"
    /\ sessions' = InsertSession(sessions, sid[t], cur[t])
    /\ ReleaseLock(t)
    /\ closedIds' = closedIds \ {sid[t]}

\* "Start reading from PTY" block: reserve the handler slot and spawn the
\* pump, unless the id is already in ACTIVE_OUTPUT_HANDLERS.
SpawnPump(t) ==
    IF ShouldSpawn(handlers, sid[t])
    THEN /\ handlers' = handlers \cup {sid[t]}
         /\ pump' = [pump EXCEPT ![cur[t]] = [pc |-> "spawned", pty |-> 0]]
    ELSE UNCHANGED <<handlers, pump>>

\* Invocation up to the request for the write guard: a new uuid, the path
\* lookup, openpty, spawn_command and take_writer all succeed.
StartInvoke(t) ==
    \E i \in Ids :
        /\ Fresh(i)
        /\ Begin(t, "start", i, "s_store")
        /\ CreateEntry(t, i)
        /\ RequestLock(t, "write")
        /\ UNCHANGED <<codecVars, pathVars, lkVars, raceVars, trackVars, todoVars, ioVars, regVars, childLock, pump, closedIds>>

\* A deliberately wrong start: the id is entered in the handler set before
\* the command fails.
StartFailLeaky(t) ==
    \E i \in Ids :
        /\ pc[t] = "idle"
        /\ ev' = [NoEv EXCEPT !.t = t, !.op = "start", !.ret = "spawn_error"]
        /\ handlers' = handlers \cup {i}
        /\ streak' = [j \in AllIds |-> 0]
        /\ UNCHANGED <<codecVars, pathVars, lkVars, raceVars, trackVars, todoVars, ioVars, sessions, lockVars, procVars,
                       taskVars, closedIds>>

\* The path lookup, openpty, spawn_command or take_writer fails: the
\* command returns the error and has touched nothing.
StartFail(t) ==
    \E r \in {"path_error", "spawn_error"} :
        /\ pc[t] = "idle"
        /\ ev' = [NoEv EXCEPT !.t = t, !.op = "start", !.ret = r]
        /\ streak' = [j \in AllIds |-> 0]
        /\ UNCHANGED <<codecVars, pathVars, lkVars, raceVars, trackVars, todoVars, ioVars, regVars, lockVars, procVars,
                       taskVars, closedIds>>

\* The id is known to nobody else until the command returns, so the store
\* block, the handler block and the return are taken as one step.
StartStore(t) ==
    /\ pc[t] = "s_store"
    /\ StoreSession(t)
    /\ SpawnPump(t)
    /\ Return(t)
    /\ ev' = Ev(t, "ok", "none", "none", "none")
    /\ UNCHANGED <<codecVars, pathVars, lkVars, raceVars, trackVars, todoVars, ioVars, childLock, child, nEntries, entryId,
                   streak>>

\* ------------------------------------------------ resume_claude_session
ResumeInvoke(t) ==
    \E i \in KnownIds :
        /\ Begin(t, "resume", i, "r_check")
        /\ RequestLock(t, "read")
        /\ UNCHANGED <<codecVars, pathVars, lkVars, raceVars, trackVars, todoVars, ioVars, regVars, childLock, procVars, cur,
                       closedIds>>

\* Under the read guard: contains_key, then verify_claude_health up to
\* try_lock.  Without an entry, or when the health check cannot get its
\* locks, the guard is dropped and the command goes on to recreate.
ResumeCheck(t) ==
    /\ pc[t] = "r_check"
    /\ rwHeld[t] = "read"
    /\ LET e == sessions[sid[t]] IN
       IF e # 0 /\ HealthAcquire(e)
       THEN /\ childLock' = [childLock EXCEPT ![e] = t]
            /\ Goto(t, "r_h2")
            /\ ev' = NoEv
            /\ UNCHANGED <<rwHeld, rwQueue, streak>>
       ELSE /\ ReleaseLock(t)
            /\ Goto(t, "r_clean0")
            /\ ev' = Ev(t, "none", IF e = 0 THEN "none" ELSE "false",
                        "none", "none")
            /\ streak' = [streak EXCEPT ![sid[t]] = 0]
            /\ UNCHANGED childLock
    /\ UNCHANGED <<codecVars, pathVars, lkVars, raceVars, trackVars, todoVars, ioVars, regVars, procVars, closedIds>>

\* try_wait under the child mutex; a true verdict returns the id at once.
ResumeHealthWait(t) ==
    /\ pc[t] = "r_h2"
    /\ LET e == CHOOSE x \in Entries : childLock[x] = t IN
       \E w \in TryWait(child[e]) :
          /\ childLock' = [childLock EXCEPT ![e] = 0]
          /\ ReleaseLock(t)
          /\ IF HealthVerdict(w)
             THEN /\ Return(t)
                  /\ ev' = Ev(t, "ok", "true", w, "none")
                  /\ streak' = [streak EXCEPT ![sid[t]] =
                                  IF solo[t] THEN IF @ < 2 THEN @ + 1 ELSE 2
                                  ELSE 0]
             ELSE /\ Goto(t, "r_clean0")
                  /\ ev' = Ev(t, "none", "false", w, "none")
                  /\ streak' = [streak EXCEPT ![sid[t]] = 0]
    /\ UNCHANGED <<codecVars, pathVars, lkVars, raceVars, trackVars, todoVars, ioVars, regVars, procVars, closedIds>>

\* TERMINAL_SESSIONS.write().await of the clean-up block.
ResumeAwaitCleanup(t) ==
    /\ pc[t] = "r_clean0"
    /\ RequestLock(t, "write")
    /\ Goto(t, "r_clean")
    /\ ev' = NoEv
    /\ UNCHANGED <<codecVars, pathVars, lkVars, raceVars, trackVars, todoVars, ioVars, regVars, childLock, procVars, histVars>>

\* Clean-up block, first half: sessions.remove under the write guard.  With
\* no entry the block ends at once; otherwise old_session is in hand.
ResumeCleanup(t) ==
    /\ pc[t] = "r_clean"
    /\ rwHeld[t] = "write"
    /\ ev' = Ev(t, "none", "none", "none", "none")
    /\ sessions' = RemoveSession(sessions, sid[t])
    /\ IF sessions[sid[t]] = 0
       THEN /\ ReleaseLock(t)
            /\ Goto(t, "r_create")
            /\ UNCHANGED cur
       ELSE /\ cur' = [cur EXCEPT ![t] = sessions[sid[t]]]
            /\ pc' = [pc EXCEPT ![t] = "r_kill"]
            /\ UNCHANGED <<rwHeld, rwQueue, op, sid, pre, solo>>
    /\ UNCHANGED <<codecVars, pathVars, lkVars, raceVars, trackVars, todoVars, ioVars, handlers, childLock, procVars, histVars>>

\* Clean-up block, second half: try to kill old_session's child and drop the
\* id from ACTIVE_OUTPUT_HANDLERS; the write guard ends with the block.
ResumeKill(t) ==
    /\ pc[t] = "r_kill"
    /\ rwHeld[t] = "write"
    /\ \E k \in TeardownOutcomes(cur[t]) :
          /\ child' = IF k = "ok" THEN Killed(child, cur[t]) ELSE child
          /\ ev' = [Ev(t, "none", "none", "none", k) EXCEPT !.had = cur[t]]
    /\ handlers' = handlers \ {sid[t]}
    /\ ReleaseLock(t)
    /\ pc' = [pc EXCEPT ![t] = "r_create"]
    /\ cur' = [cur EXCEPT ![t] = 0]
    /\ UNCHANGED <<codecVars, pathVars, lkVars, raceVars, trackVars, todoVars, ioVars, sessions, childLock, nEntries, entryId,
                   pump,
                   op, sid, pre, solo, histVars>>

\* Path lookup, openpty, spawn_command, take_writer: an error returns;
\* otherwise the new entry is built and the write guard requested.
ResumeCreateFail(t) ==
    \E r \in {"path_error", "spawn_error"} :
        /\ pc[t] = "r_create"
        /\ ev' = Ev(t, r, "none", "none", "none")
        /\ Return(t)
        /\ UNCHANGED <<codecVars, pathVars, lkVars, raceVars, trackVars, todoVars, ioVars, regVars, lockVars, procVars,
                       histVars>>

ResumeCreate(t) ==
    /\ pc[t] = "r_create"
    /\ CreateEntry(t, sid[t])
    /\ RequestLock(t, "write")
    /\ pc' = [pc EXCEPT ![t] = "r_store"]
    /\ ev' = NoEv
    /\ UNCHANGED <<codecVars, pathVars, lkVars, raceVars, trackVars, todoVars, ioVars, regVars, childLock, pump, op, sid, pre,
                   solo, histVars>>

\* Store block.  Commands in flight on the same id now face a new session.
ResumeStore(t) ==
    /\ pc[t] = "r_store"
    /\ StoreSession(t)
    /\ pc' = [pc EXCEPT ![t] = "r_spawn"]
    /\ pre' = [u \in Tasks |->
                 IF u # t /\ sid[u] = sid[t] THEN "any" ELSE pre[u]]
    /\ ev' = NoEv
    /\ UNCHANGED <<codecVars, pathVars, lkVars, raceVars, trackVars, todoVars, ioVars, handlers, childLock, procVars, op, sid,
                   cur, solo, streak>>

\* Handler block and return.
ResumeSpawn(t) ==
    /\ pc[t] = "r_spawn"
    /\ SpawnPump(t)
    /\ Return(t)
    /\ ev' = Ev(t, "ok", "none", "none", "none")
    /\ UNCHANGED <<codecVars, pathVars, lkVars, raceVars, trackVars, todoVars, ioVars, sessions, lockVars, child, nEntries,
                   entryId, histVars>>

\* ----------------------------------------------------- write_to_terminal
\* writer.write_all / flush on the pty: both can fail.
WriteOutcomes == {"ok", "write_error"}

WriteInvoke(t) ==
    \E i \in KnownIds :
        /\ Begin(t, "write", i, "w_h1")
        /\ UNCHANGED <<codecVars, pathVars, lkVars, raceVars, trackVars, todoVars, ioVars, regVars, lockVars, procVars, cur,
                       closedIds>>

\* verify_claude_health up to try_lock; the try_read guard is kept while
\* the child mutex is held.  A miss returns the not-healthy error.
WriteHealth(t) ==
    /\ pc[t] = "w_h1"
    /\ LET e == sessions[sid[t]] IN
       IF HealthAcquire(e)
       THEN /\ childLock' = [childLock EXCEPT ![e] = t]
            /\ rwHeld' = [rwHeld EXCEPT ![t] = "read"]
            /\ Goto(t, "w_h2")
            /\ ev' = NoEv
       ELSE /\ Return(t)
            /\ ev' = Ev(t, "unhealthy", "false", "none", "none")
            /\ UNCHANGED <<childLock, rwHeld>>
    /\ UNCHANGED <<codecVars, pathVars, lkVars, raceVars, trackVars, todoVars, ioVars, regVars, rwQueue, procVars, histVars>>

WriteHealthWait(t) ==
    /\ pc[t] = "w_h2"
    /\ LET e == CHOOSE x \in Entries : childLock[x] = t IN
       \E w \in TryWait(child[e]) :
          /\ childLock' = [childLock EXCEPT ![e] = 0]
          /\ ReleaseLock(t)
          /\ IF WriteProceeds(HealthVerdict(w))
             THEN /\ Goto(t, "w_get0")
                  /\ ev' = Ev(t, "none", Verdict(HealthVerdict(w)), w, "none")
             ELSE /\ Return(t)
                  /\ ev' = Ev(t, "unhealthy", Verdict(HealthVerdict(w)), w,
                              "none")
    /\ UNCHANGED <<codecVars, pathVars, lkVars, raceVars, trackVars, todoVars, ioVars, regVars, procVars, histVars>>

\* TERMINAL_SESSIONS.read().await after the health check.
WriteAwait(t) ==
    /\ pc[t] = "w_get0"
    /\ RequestLock(t, "read")
    /\ Goto(t, "w_get")
    /\ ev' = NoEv
    /\ UNCHANGED <<codecVars, pathVars, lkVars, raceVars, trackVars, todoVars, ioVars, regVars, childLock, procVars, histVars>>

\* sessions.get: an absent id returns; otherwise the task goes on to the
\* writer mutex with the read guard still in hand.
WriteData(t) ==
    /\ pc[t] = "w_get"
    /\ rwHeld[t] = "read"
    /\ IF sessions[sid[t]] = 0
       THEN /\ ev' = Ev(t, "not_found", "none", "none", "none")
            /\ ReleaseLock(t)
            /\ Return(t)
       ELSE /\ ev' = NoEv
            /\ pc' = [pc EXCEPT ![t] = "w_io"]
            /\ cur' = [cur EXCEPT ![t] = sessions[sid[t]]]
            /\ UNCHANGED <<rwHeld, rwQueue, op, sid, pre, solo>>
    /\ UNCHANGED <<codecVars, pathVars, lkVars, raceVars, trackVars, todoVars, ioVars, regVars, childLock, procVars, histVars>>

\* write_all and flush on the session's writer; the read guard `sessions`
\* is dropped when the function returns.
WriteIo(t) ==
    /\ pc[t] = "w_io"
    /\ rwHeld[t] = "read"
    /\ \E r \in WriteOutcomes :
          ev' = [Ev(t, r, "none", "none", "none") EXCEPT !.new = 0]
    /\ ReleaseLock(t)
    /\ Return(t)
    /\ UNCHANGED <<codecVars, pathVars, lkVars, raceVars, trackVars, todoVars, ioVars, regVars, childLock, procVars, histVars>>

\* ------------------------------------------------------- resize_terminal
ResizeOutcomes == {"ok", "resize_error"}

ResizeInvoke(t) ==
    \E i \in KnownIds :
        /\ Begin(t, "resize", i, "z_get")
        /\ RequestLock(t, "read")
        /\ UNCHANGED <<codecVars, pathVars, lkVars, raceVars, trackVars, todoVars, ioVars, regVars, childLock, procVars, cur,
                       closedIds>>

\* A deliberately wrong resize: it drops the output nobody has read yet.
ResizeFlushing(t) ==
    /\ pc[t] = "z_get"
    /\ rwHeld[t] = "read"
    /\ \E r \in (IF sessions[sid[t]] = 0 THEN {"not_found"}
                 ELSE ResizeOutcomes) :
          ev' = Ev(t, r, "none", "none", "none")
    /\ ptyBuf' = <<>>
    /\ ReleaseLock(t)
    /\ Return(t)
    /\ UNCHANGED <<ppc, chunk, li, published, failed, nOut, regVars, childLock,
                   procVars, histVars, codecVars, pathVars, lkVars, raceVars, trackVars, todoVars>>

\* sessions.get under the read guard; with an entry, pty_master.lock and
\* resize, whose error is returned.
Resize(t) ==
    /\ pc[t] = "z_get"
    /\ rwHeld[t] = "read"
    /\ \E r \in (IF sessions[sid[t]] = 0 THEN {"not_found"}
                 ELSE ResizeOutcomes) :
          ev' = Ev(t, r, "none", "none", "none")
    /\ ReleaseLock(t)
    /\ Return(t)
    /\ UNCHANGED <<codecVars, pathVars, lkVars, raceVars, trackVars, todoVars, ioVars, regVars, childLock, procVars, histVars>>

\* ------------------------------------------------ close_terminal_session
CloseInvoke(t) ==
    \E i \in KnownIds :
        /\ Begin(t, "close", i, "c_body")
        /\ RequestLock(t, "write")
        /\ UNCHANGED <<codecVars, pathVars, lkVars, raceVars, trackVars, todoVars, ioVars, regVars, childLock, procVars, cur,
                       closedIds>>

\* Under the write guard: sessions.remove; an absent id returns
\* SessionNotFound, otherwise the removed session is in hand.
Close(t) ==
    /\ pc[t] = "c_body"
    /\ rwHeld[t] = "write"
    /\ sessions' = RemoveSession(sessions, sid[t])
    /\ IF sessions[sid[t]] = 0
       THEN /\ ev' = Ev(t, CloseResult(FALSE, "none"), "none", "none", "none")
            /\ ReleaseLock(t)
            /\ Return(t)
       ELSE /\ ev' = Ev(t, "none", "none", "none", "none")
            /\ cur' = [cur EXCEPT ![t] = sessions[sid[t]]]
            /\ pc' = [pc EXCEPT ![t] = "c_kill"]
            /\ UNCHANGED <<rwHeld, rwQueue, op, sid, pre, solo>>
    /\ UNCHANGED <<codecVars, pathVars, lkVars, raceVars, trackVars, todoVars, ioVars, handlers, childLock, procVars, histVars>>

\* Still under the write guard: try to kill the removed session's child,
\* log the outcome, return Ok.
CloseKill(t) ==
    /\ pc[t] = "c_kill"
    /\ rwHeld[t] = "write"
    /\ \E k \in TeardownOutcomes(cur[t]) :
          LET r == CloseResult(TRUE, k) IN
          /\ child' = IF k = "ok" THEN Killed(child, cur[t]) ELSE child
          /\ closedIds' = IF r = "ok" THEN closedIds \cup {sid[t]}
                          ELSE closedIds
          /\ ev' = [Ev(t, r, "none", "none", k) EXCEPT !.had = cur[t]]
    /\ ReleaseLock(t)
    /\ Return(t)
    /\ UNCHANGED <<codecVars, pathVars, lkVars, raceVars, trackVars, todoVars, ioVars, regVars, childLock, nEntries, entryId,
                   pump, streak>>

\* -------------------------------------------- handle_pty_output_no_check
SetPump(e, l, p) == pump' = [pump EXCEPT ![e] = [pc |-> l, pty |-> p]]

\* TERMINAL_SESSIONS.read().await at the head of the pump.
PumpAwait(e) ==
    /\ pump[e].pc = "spawned"
    /\ RequestLock(PumpProc(e), "read")
    /\ SetPump(e, "lookup", 0)
    /\ ev' = NoEv
    /\ UNCHANGED <<codecVars, pathVars, lkVars, raceVars, trackVars, todoVars, ioVars, regVars, childLock, child, nEntries,
                   entryId, taskVars,
                   histVars>>

\* sessions.get(&session_id): the pump takes the pty_master of whatever
\* entry the id names now, or fails with "Session not found".
PumpLookup(e) ==
    /\ pump[e].pc = "lookup"
    /\ rwHeld[PumpProc(e)] = "read"
    /\ ReleaseLock(PumpProc(e))
    /\ IF sessions[entryId[e]] = 0
       THEN SetPump(e, "failed", 0)
       ELSE SetPump(e, "read", sessions[entryId[e]])
    /\ ev' = NoEv
    /\ UNCHANGED <<codecVars, pathVars, lkVars, raceVars, trackVars, todoVars, ioVars, regVars, childLock, child, nEntries,
                   entryId, taskVars,
                   histVars>>

\* The spawned wrapper's error arm: drop the id from the handler set.
PumpFailed(e) ==
    /\ pump[e].pc = "failed"
    /\ handlers' = Unregister(handlers, entryId[e])
    /\ SetPump(e, "done", 0)
    /\ ev' = NoEv
    /\ UNCHANGED <<codecVars, pathVars, lkVars, raceVars, trackVars, todoVars, ioVars, sessions, lockVars, child, nEntries,
                   entryId, taskVars,
                   histVars>>

\* One turn of the loop: a read that yields data is forwarded and the loop
\* goes on; end-of-stream or an error leaves the loop, drops the id from
\* the handler set and ends the task.
PumpRead(e) ==
    /\ pump[e].pc = "read"
    /\ \E r \in ReadOutcomes(child[pump[e].pty]) :
          IF PumpContinues(r)
          THEN UNCHANGED <<handlers, pump>>
          ELSE /\ handlers' = Unregister(handlers, entryId[e])
               /\ SetPump(e, "done", pump[e].pty)
    /\ ev' = NoEv
    /\ UNCHANGED <<codecVars, pathVars, lkVars, raceVars, trackVars, todoVars, ioVars, sessions, lockVars, child, nEntries,
                   entryId, taskVars,
                   histVars>>

\* ------------------------------------------------------------- environment
\* The child of an entry exits on its own.
ChildExit(e) ==
    /\ child[e] = "running"
    /\ child' = [child EXCEPT ![e] = "exited"]
    /\ ev' = NoEv
    /\ UNCHANGED <<codecVars, pathVars, lkVars, raceVars, trackVars, todoVars, ioVars, regVars, lockVars, nEntries, entryId,
                   pump, taskVars,
                   histVars>>

\* ------------------------------------------------------------ specification
Invoke(t) ==
    \/ StartInvoke(t)
    \/ StartFail(t)
    \/ ResumeInvoke(t)
    \/ WriteInvoke(t)
    \/ ResizeInvoke(t)
    \/ CloseInvoke(t)

TaskStep(t) ==
    \/ StartStore(t)
    \/ ResumeCheck(t)
    \/ ResumeHealthWait(t)
    \/ ResumeAwaitCleanup(t)
    \/ ResumeCleanup(t)
    \/ ResumeKill(t)
    \/ ResumeCreateFail(t)
    \/ ResumeCreate(t)
    \/ ResumeStore(t)
    \/ ResumeSpawn(t)
    \/ WriteHealth(t)
    \/ WriteHealthWait(t)
    \/ WriteAwait(t)
    \/ WriteData(t)
    \/ WriteIo(t)
    \/ Resize(t)
    \/ Close(t)
    \/ CloseKill(t)

PumpStep(e) ==
    \/ PumpAwait(e)
    \/ PumpLookup(e)
    \/ PumpFailed(e)
    \/ PumpRead(e)

Next ==
    \/ \E t \in Tasks : Invoke(t)
    \/ \E t \in Tasks : TaskStep(t)
    \/ \E e \in Entries : PumpStep(e)
    \/ \E e \in Entries : ChildExit(e)

Spec == Init /\ [][Next]_vars

Labels ==
    {"idle", "s_store", "r_check", "r_h2", "r_clean0", "r_clean", "r_kill",
     "r_create",
     "r_store", "r_spawn", "w_h1", "w_h2", "w_get0", "w_get", "w_io", "z_get",
     "c_body", "c_kill"}

TypeOK ==
    /\ sessions \in [AllIds -> Entries \cup {0}]
    /\ handlers \subseteq AllIds
    /\ rwHeld \in [Procs -> {"none", "read", "write"}]
    /\ \A i \in 1..Len(rwQueue) :
          rwQueue[i].proc \in Procs /\ rwQueue[i].mode \in {"read", "write"}
    /\ childLock \in [Entries -> Tasks \cup {0}]
    /\ child \in [Entries -> {"unborn", "running", "exited"}]
    /\ nEntries \in 0..MaxEntries
    /\ entryId \in [Entries -> AllIds \cup {0}]
    /\ \A e \in Entries :
          /\ pump[e].pc \in {"none", "spawned", "lookup", "failed", "read",
                             "done"}
          /\ pump[e].pty \in Entries \cup {0}
    /\ pc \in [Tasks -> Labels]
    /\ op \in [Tasks -> {"none", "start", "resume", "write", "resize",
                         "close"}]
    /\ sid \in [Tasks -> Ids \cup {0}]
    /\ cur \in [Tasks -> Entries \cup {0}]
    /\ pre \in [Tasks -> {"none", "closed", "dead", "any"}]
    /\ solo \in [Tasks -> BOOLEAN]
    /\ streak \in [AllIds -> 0..2]
    /\ closedIds \subseteq AllIds
    /\ ev.t \in Tasks \cup {0}

\* ------------------------------------- one turn of the pump, line by line
\* The loop body of handle_pty_output_no_check at the grain of single lines:
\* what PumpRead takes as one step is split here into the read, the
\* handling of each line of the block, and the emission of the block.
LineKinds == {"plain", "todowrite", "todomark", "event"}

\* The pump in its loop, if any.
Reading(e) == pump[e].pc = "read" /\ pump[e].pty = e

\* reader.read(): buffered output is returned first, at most MaxRead lines
\* at a time; an empty buffer gives end-of-stream once the child is gone
\* and blocks while it runs; an I/O error is always possible.
ReadResults(st, buf) ==
    IF buf # <<>> THEN {"data", "err"}
    ELSE IF st = "running" THEN {"err"}
    ELSE {"eof", "err"}

\* What handling one line can yield: the line asks for no handler ("skip");
\* a handler ran and found nothing to store, stored todos and announced
\* them, or returned an error (no session path, no parse, failed save).
HandlerResults(kind) ==
    IF kind \in {"todowrite", "todomark"} THEN {"nothing", "saved", "err"}
    ELSE {"skip"}

\* `if let Err(e) = handle_...(..).await { println!(..) }`: an error of a
\* handler is logged and the loop over the lines goes on.
OnHandlerResultAbort(r) == IF r = "err" THEN "break" ELSE "continue"
OnHandlerResult(r) == "continue"

\* app.emit(..): the notification is appended to the outbound channel.
PublishFront(q, n) == <<n>> \o q
Publish(q, n) == Append(q, n)

Note(topic, id, data) == [topic |-> topic, id |-> id, data |-> data]

\* The child writes one more line to its side of the pty.
ChildWrite ==
    \E e \in Entries, k \in LineKinds :
        /\ Reading(e)
        /\ child[e] = "running"
        /\ nOut < MaxLines
        /\ nOut' = nOut + 1
        /\ ptyBuf' = Append(ptyBuf, [n |-> nOut + 1, kind |-> k])
        /\ ev' = NoEv
        /\ UNCHANGED <<regVars, lockVars, procVars, taskVars, histVars, ppc,
                       chunk, li, published, failed, codecVars, pathVars, lkVars, raceVars, trackVars, todoVars>>

\* The pump leaves its loop: handlers.remove and the end of the task.
PumpLeaves(e) ==
    /\ handlers' = Unregister(handlers, entryId[e])
    /\ SetPump(e, "done", pump[e].pty)
    /\ ppc' = "done"

\* pty.try_clone_reader() and reader.read(&mut buffer).
PRead ==
    \E e \in Entries :
        /\ Reading(e)
        /\ ppc = "read"
        /\ \E r \in ReadResults(child[e], ptyBuf) :
              IF PumpContinues(r)
              THEN \E k \in 1..MaxRead :
                      /\ k <= Len(ptyBuf)
                      /\ chunk' = SubSeq(ptyBuf, 1, k)
                      /\ ptyBuf' = SubSeq(ptyBuf, k + 1, Len(ptyBuf))
                      /\ li' = 0
                      /\ ppc' = "line"
                      /\ UNCHANGED <<handlers, pump>>
              ELSE /\ PumpLeaves(e)
                   /\ UNCHANGED <<ptyBuf, chunk, li>>
        /\ ev' = NoEv
        /\ UNCHANGED <<sessions, lockVars, child, nEntries, entryId, taskVars,
                       histVars, published, failed, nOut, codecVars, pathVars, lkVars, raceVars, trackVars, todoVars>>

\* One line of the block: the todo handlers it asks for are run.
PLine ==
    \E e \in Entries :
        /\ Reading(e)
        /\ ppc = "line"
        /\ li < Len(chunk)
        /\ LET ln == chunk[li + 1] IN
           \E r \in HandlerResults(ln.kind) :
              /\ published' =
                    IF r = "saved"
                    THEN Publish(published,
                                 Note("todos_updated", entryId[e], <<ln>>))
                    ELSE published
              /\ failed' = IF r = "err" THEN failed \cup {ln.n} ELSE failed
              /\ IF OnHandlerResult(r) = "continue"
                 THEN /\ li' = li + 1
                      /\ UNCHANGED <<handlers, pump, ppc>>
                 ELSE /\ PumpLeaves(e)
                      /\ UNCHANGED li
        /\ ev' = NoEv
        /\ UNCHANGED <<sessions, lockVars, child, nEntries, entryId, taskVars,
                       histVars, ptyBuf, chunk, nOut, codecVars, pathVars, lkVars, raceVars, trackVars, todoVars>>

\* After the last line: the block is emitted as "terminal_output" and,
\* after the 10 ms sleep, the loop starts over.
PEmit ==
    \E e \in Entries :
        /\ Reading(e)
        /\ ppc = "line"
        /\ li = Len(chunk)
        /\ published' =
              Publish(published, Note("terminal_output", entryId[e], chunk))
        /\ chunk' = <<>>
        /\ li' = 0
        /\ ppc' = "read"
        /\ ev' = NoEv
        /\ UNCHANGED <<sessVars, ptyBuf, failed, nOut, codecVars, pathVars, lkVars, raceVars, trackVars, todoVars>>

\* A registered session whose pump has reached its loop, or an empty
\* registry; resize commands may arrive at any time.
InitLive ==
    /\ \E i \in Ids, live \in BOOLEAN :
          /\ sessions = [j \in AllIds |-> IF live /\ j = i THEN 1 ELSE 0]
          /\ handlers = IF live THEN {i} ELSE {}
          /\ child = [e \in Entries |->
                        IF live /\ e = 1 THEN "running" ELSE "unborn"]
          /\ nEntries = IF live THEN 1 ELSE 0
          /\ entryId = [e \in Entries |-> IF live /\ e = 1 THEN i ELSE 0]
          /\ pump = [e \in Entries |->
                       IF live /\ e = 1 THEN [pc |-> "read", pty |-> 1]
                       ELSE [pc |-> "none", pty |-> 0]]
          /\ ppc = IF live THEN "read" ELSE "off"
    /\ rwHeld = [p \in Procs |-> "none"]
    /\ rwQueue = <<>>
    /\ childLock = [e \in Entries |-> 0]
    /\ pc = [t \in Tasks |-> "idle"]
    /\ op = [t \in Tasks |-> "none"]
    /\ sid = [t \in Tasks |-> 0]
    /\ cur = [t \in Tasks |-> 0]
    /\ pre = [t \in Tasks |-> "none"]
    /\ solo = [t \in Tasks |-> FALSE]
    /\ streak = [i \in AllIds |-> 0]
    /\ closedIds = {}
    /\ ev = NoEv
    /\ ptyBuf = <<>>
    /\ chunk = <<>>
    /\ li = 0
    /\ published = <<>>
    /\ failed = {}
    /\ nOut = 0

InitStream ==
    /\ InitLive
    /\ InitTracker
    /\ InitTodos
    /\ InitPath
    /\ InitLocks
    /\ InitRace
    /\ line = [form |-> "text", raw |-> <<>>]
    /\ out = [kind |-> "pending"]

StreamNext ==
    \/ ChildWrite
    \/ PRead
    \/ PLine
    \/ PEmit
    \/ \E e \in Entries : ChildExit(e)
    \/ \E t \in Tasks : ResizeInvoke(t)
    \/ \E t \in Tasks : Resize(t)

StreamSpec == InitStream /\ [][StreamNext]_vars

\* --------------------------------------------------- runtime worker threads
\* Commands and pumps are tasks of one multi-threaded runtime with NumWorkers
\* worker threads.  A task runs on a worker from one await to the next;
\* reader.read() is a synchronous call, so a pump inside it keeps its worker
\* until the call returns.  In this specification "sleep" is a pump between
\* a read that returned data and the next one, "read" a pump inside
\* reader.read().
InRead == {e \in Entries : pump[e].pc = "read"}
WorkerFree == Cardinality(InRead) < NumWorkers

\* reader.read() returns: data is forwarded and the pump sleeps 10 ms,
\* end-of-stream or an error leaves the loop.
PoolRead(e) ==
    /\ pump[e].pc = "read"
    /\ \E r \in ReadOutcomes(child[pump[e].pty]) :
          IF PumpContinues(r)
          THEN /\ SetPump(e, "sleep", pump[e].pty)
               /\ UNCHANGED handlers
          ELSE /\ handlers' = Unregister(handlers, entryId[e])
               /\ SetPump(e, "done", pump[e].pty)
    /\ ev' = NoEv
    /\ UNCHANGED <<codecVars, pathVars, lkVars, raceVars, trackVars, todoVars, ioVars, sessions, lockVars, child, nEntries,
                   entryId, taskVars,
                   histVars>>

\* After the sleep: pty_master.lock, try_clone_reader, drop(pty), and into
\* the next reader.read().
PoolWake(e) ==
    /\ pump[e].pc = "sleep"
    /\ SetPump(e, "read", pump[e].pty)
    /\ ev' = NoEv
    /\ UNCHANGED <<codecVars, pathVars, lkVars, raceVars, trackVars, todoVars, ioVars, regVars, lockVars, child, nEntries,
                   entryId, taskVars,
                   histVars>>

\* Steps of commands and pumps that need a worker thread to run on.
PoolInvoke(t) == WorkerFree /\ Invoke(t)
PoolTask(t) == WorkerFree /\ TaskStep(t)
PoolPump(e) ==
    /\ WorkerFree
    /\ PumpAwait(e) \/ PumpLookup(e) \/ PumpFailed(e) \/ PoolWake(e)

PoolNext ==
    \/ \E t \in Tasks : PoolInvoke(t)
    \/ \E t \in Tasks : PoolTask(t)
    \/ \E e \in Entries : PoolPump(e)
    \/ \E e \in Entries : PoolRead(e)
    \/ \E e \in Entries : ChildExit(e)

PoolSpec == Init /\ [][PoolNext]_vars

\* ============================================================ event codec
\* Strings are sequences of one-character strings, so that trim, to_lowercase,
\* starts_with and contains are computed on the characters.
Text ==
    [thinking |-> <<"t", "h", "i", "n", "k", "i", "n", "g">>,
     processing |-> <<"p", "r", "o", "c", "e", "s", "s", "i", "n", "g">>,
     error |-> <<"e", "r", "r", "o", "r">>,
     failed |-> <<"f", "a", "i", "l", "e", "d">>,
     permission |-> <<"p", "e", "r", "m", "i", "s", "s", "i", "o", "n">>,
     Allow |-> <<"A", "l", "l", "o", "w">>,
     Deny |-> <<"D", "e", "n", "y">>,
     requested |->
         <<"C", "l", "a", "u", "d", "e", " ", "r", "e", "q", "u", "e", "s",
           "t", "e", "d", " ", "p", "e", "r", "m", "i", "s", "s", "i", "o",
           "n", "s">>,
     Thinking |-> <<"T", "h", "i", "n", "k", "i", "n", "g">>,
     PROCESSING |-> <<"P", "R", "O", "C", "E", "S", "S", "I", "N", "G">>,
     Error |-> <<"E", "r", "r", "o", "r">>,
     FAILED |-> <<"F", "A", "I", "L", "E", "D">>,
     Permission |-> <<"P", "e", "r", "m", "i", "s", "s", "i", "o", "n">>,
     ok |-> <<"o", "k">>,
     space |-> <<" ">>,
     type |-> <<"t", "y", "p", "e">>,
     subtype |-> <<"s", "u", "b", "t", "y", "p", "e">>,
     usage |-> <<"u", "s", "a", "g", "e">>,
     input_tokens |->
         <<"i", "n", "p", "u", "t", "_", "t", "o", "k", "e", "n", "s">>,
     output_tokens |->
         <<"o", "u", "t", "p", "u", "t", "_", "t", "o", "k", "e", "n", "s">>,
     result |-> <<"r", "e", "s", "u", "l", "t">>,
     user |-> <<"u", "s", "e", "r">>,
     ping |-> <<"p", "i", "n", "g">>,
     success |-> <<"s", "u", "c", "c", "e", "s", "s">>,
     other |-> <<"o", "t", "h", "e", "r">>,
     boom |-> <<"b", "o", "o", "m">>,
     unknown |->
         <<"U", "n", "k", "n", "o", "w", "n", " ", "e", "r", "r", "o", "r">>,
     system |-> <<"s", "y", "s", "t", "e", "m">>,
     assistant |-> <<"a", "s", "s", "i", "s", "t", "a", "n", "t">>,
     init |-> <<"i", "n", "i", "t">>,
     permission_request |->
         <<"p", "e", "r", "m", "i", "s", "s", "i", "o", "n", "_", "r", "e",
           "q", "u", "e", "s", "t">>,
     message |-> <<"m", "e", "s", "s", "a", "g", "e">>,
     content |-> <<"c", "o", "n", "t", "e", "n", "t">>,
     session_id |-> <<"s", "e", "s", "s", "i", "o", "n", "_", "i", "d">>,
     text |-> <<"t", "e", "x", "t">>,
     tool_use |-> <<"t", "o", "o", "l", "_", "u", "s", "e">>,
     name |-> <<"n", "a", "m", "e">>,
     input |-> <<"i", "n", "p", "u", "t">>,
     pattern |-> <<"p", "a", "t", "t", "e", "r", "n">>,
     file_path |-> <<"f", "i", "l", "e", "_", "p", "a", "t", "h">>,
     image |-> <<"i", "m", "a", "g", "e">>,
     Glob |-> <<"G", "l", "o", "b">>,
     Read |-> <<"R", "e", "a", "d">>,
     Bash |-> <<"B", "a", "s", "h">>,
     hi |-> <<"h", "i">>,
     yo |-> <<"y", "o">>,
     star |-> <<"*">>,
     path |-> <<"a", "/", "b">>,
     s1 |-> <<"s", "1">>,
     s2 |-> <<"s", "2">>,
     using |-> <<"U", "s", "i", "n", "g", " ", "t", "o", "o", "l", ":", " ">>,
     searching |->
         <<" ", " ", " ", "S", "e", "a", "r", "c", "h", "i", "n", "g", " ",
           "f", "o", "r", " ", "p", "a", "t", "t", "e", "r", "n", ":", " ">>,
     reading |->
         <<" ", " ", " ", "R", "e", "a", "d", "i", "n", "g", " ", "f", "i",
           "l", "e", ":", " ">>,
     executing |->
         <<" ", " ", " ", "E", "x", "e", "c", "u", "t", "i", "n", "g", " ">>,
     initialized |->
         <<"C", "l", "a", "u", "d", "e", " ", "C", "o", "d", "e", " ", "i",
           "n", "i", "t", "i", "a", "l", "i", "z", "e", "d">>,
     systemPrefix |-> <<"S", "y", "s", "t", "e", "m", ":", " ">>,
     permissionOf |->
         <<"C", "l", "a", "u", "d", "e", " ", "i", "s", " ", "r", "e", "q",
           "u", "e", "s", "t", "i", "n", "g", " ", "p", "e", "r", "m", "i",
           "s", "s", "i", "o", "n", ":", " ">>,
     permissionPlain |->
         <<"C", "l", "a", "u", "d", "e", " ", "i", "s", " ", "r", "e", "q",
           "u", "e", "s", "t", "i", "n", "g", " ", "p", "e", "r", "m", "i",
           "s", "s", "i", "o", "n", " ", "t", "o", " ", "p", "r", "o", "c",
           "e", "e", "d">>,
     permissionText |->
         <<"C", "l", "a", "u", "d", "e", " ", "i", "s", " ", "r", "e", "q",
           "u", "e", "s", "t", "i", "n", "g", " ", "p", "e", "r", "m", "i",
           "s", "s", "i", "o", "n", " ", "t", "o", " ", "a", "c", "c", "e",
           "s", "s", " ", "f", "i", "l", "e", "s", " ", "o", "r", " ", "p",
           "e", "r", "f", "o", "r", "m", " ", "o", "p", "e", "r", "a", "t",
           "i", "o", "n", "s">>,
     option1 |-> <<"1", ":", " ", "A", "l", "l", "o", "w">>,
     option2 |->
         <<"2", ":", " ", "A", "l", "l", "o", "w", " ", "a", "n", "d", " ",
           "r", "e", "m", "e", "m", "b", "e", "r">>,
     role |-> <<"r", "o", "l", "e">>,
     option3 |-> <<"3", ":", " ", "D", "e", "n", "y">>]

UpperCase ==
    <<"A", "B", "C", "D", "E", "F", "G", "H", "I", "J", "K", "L", "M", "N",
      "O", "P", "Q", "R", "S", "T", "U", "V", "W", "X", "Y", "Z">>
LowerCase ==
    <<"a", "b", "c", "d", "e", "f", "g", "h", "i", "j", "k", "l", "m", "n",
      "o", "p", "q", "r", "s", "t", "u", "v", "w", "x", "y", "z">>
Digits == <<"0", "1", "2", "3", "4", "5", "6", "7", "8", "9">>

\* str::trim (of the white space only the blank is in the alphabet).
RECURSIVE TrimStart(_)
TrimStart(s) ==
    IF s # <<>> /\ Head(s) = " " THEN TrimStart(Tail(s)) ELSE s
RECURSIVE TrimEnd(_)
TrimEnd(s) ==
    IF s # <<>> /\ s[Len(s)] = " " THEN TrimEnd(SubSeq(s, 1, Len(s) - 1))
    ELSE s
Trim(s) == TrimEnd(TrimStart(s))

\* str::to_lowercase, str::starts_with, str::contains.
LowerChar(c) ==
    IF \E k \in 1..26 : UpperCase[k] = c
    THEN LowerCase[CHOOSE k \in 1..26 : UpperCase[k] = c]
    ELSE c
ToLowercase(s) == [k \in 1..Len(s) |-> LowerChar(s[k])]
StartsWith(s, p) == Len(s) >= Len(p) /\ SubSeq(s, 1, Len(p)) = p
Contains(s, p) ==
    \E k \in 0..(Len(s) - Len(p)) : SubSeq(s, k + 1, k + Len(p)) = p

\* ----------------------------------------------------------- input lines
\* Free text: up to MaxWords words of the vocabulary, one blank between two.
Vocabulary ==
    {Text.thinking, Text.Thinking, Text.PROCESSING, Text.error, Text.Error,
     Text.failed, Text.FAILED, Text.permission, Text.Permission, Text.Allow,
     Text.Deny, Text.requested, Text.ok, Text.space}
RECURSIVE Join(_)
Join(ws) ==
    IF ws = <<>> THEN <<>>
    ELSE IF Len(ws) = 1 THEN ws[1]
    ELSE ws[1] \o <<" ">> \o Join(Tail(ws))
WordSeqs == UNION {[1..n -> Vocabulary] : n \in 0..MaxWords}
TextLines == {[form |-> "text", raw |-> Join(ws)] : ws \in WordSeqs}

\* JSON objects with the fields of ClaudeJsonEvent the result arm looks at;
\* Absent is a field the object does not have.  A token count of
\* U32Max + 1 stands for any number too large for a u32.
Absent == <<"absent">>
U32Max == 2 ^ WordBits - 1
TokenCounts == {0, 1, U32Max - 1, U32Max, U32Max + 1}
NoUsage == [present |-> FALSE, input_tokens |-> 0, output_tokens |-> 0]
Usages ==
    {NoUsage} \cup
    [present : {TRUE}, input_tokens : TokenCounts, output_tokens : TokenCounts]
\* message.content is a string: the text of a JSON array of content blocks
\* ("array"), of another JSON value ("value"), or no JSON at all ("raw").
NoInput == [present |-> FALSE, pattern |-> Absent, file_path |-> Absent]
EmptyInput == [present |-> TRUE, pattern |-> Absent, file_path |-> Absent]
TextBlocks ==
    [type : {Text.text}, text : {Text.hi, Text.yo, <<>>, Absent},
     name : {Absent}, input : {NoInput}]
ToolBlocks ==
    {[type |-> Text.tool_use, text |-> Absent, name |-> n, input |-> i] :
        <<n, i>> \in
          {<<Text.Glob, NoInput>>, <<Text.Glob, EmptyInput>>,
           <<Text.Glob, [EmptyInput EXCEPT !.pattern = Text.star]>>,
           <<Text.Read, EmptyInput>>,
           <<Text.Read, [EmptyInput EXCEPT !.file_path = Text.path]>>,
           <<Text.Bash, EmptyInput>>, <<Absent, EmptyInput>>}}
OtherBlocks ==
    [type : {Text.image, Absent}, text : {Absent}, name : {Absent},
     input : {NoInput}]
Blocks == TextBlocks \cup ToolBlocks \cup OtherBlocks
BlockSeqs == UNION {[1..n -> Blocks] : n \in 0..MaxBlocks}
Contents ==
    {[form |-> "array", blocks |-> bs, text |-> <<>>] : bs \in BlockSeqs}
    \cup [form : {"raw"}, blocks : {<<>>}, text : {<<>>, Text.hi}]
    \cup [form : {"value"}, blocks : {<<>>}, text : {<<"{", "}">>}]
NoMessage ==
    [present |-> FALSE, role |-> FALSE,
     content |-> [form |-> "raw", blocks |-> <<>>, text |-> <<>>]]
PlainMessage ==
    [present |-> TRUE, role |-> TRUE,
     content |-> [form |-> "raw", blocks |-> <<>>, text |-> Text.hi]]
Messages ==
    {NoMessage, [PlainMessage EXCEPT !.role = FALSE]}
    \cup [present : {TRUE}, role : {TRUE}, content : Contents]

ResultLines ==
    [form : {"json"},
     type : {Absent, Text.result, Text.user, Text.ping},
     subtype : {Absent, Text.success, Text.error, Text.other},
     usage : Usages,
     error : {Absent, Text.boom, Text.failed},
     message : {NoMessage},
     session_id : {Absent, Text.s1, Text.s2}]
SystemLines ==
    [form : {"json"},
     type : {Text.system},
     subtype : {Absent, Text.init, Text.permission_request, Text.other},
     usage : {NoUsage},
     error : {Absent},
     message : {NoMessage, PlainMessage},
     session_id : {Absent}]
AssistantLines ==
    [form : {"json"},
     type : {Text.assistant},
     subtype : {Absent},
     usage : {NoUsage},
     error : {Absent},
     message : Messages,
     session_id : {Absent}]
JsonLines == ResultLines \cup SystemLines \cup AssistantLines
Lines == TextLines \cup JsonLines

\* The text of a JSON line (quotes left out).
Field(k, v) == IF v = Absent THEN <<>> ELSE <<k \o <<":">> \o v>>
RECURSIVE Commas(_)
Commas(fs) ==
    IF fs = <<>> THEN <<>>
    ELSE IF Len(fs) = 1 THEN fs[1]
    ELSE fs[1] \o <<",">> \o Commas(Tail(fs))
RECURSIVE Decimal(_)
Decimal(n) ==
    IF n < 10 THEN <<Digits[n + 1]>>
    ELSE Decimal(n \div 10) \o <<Digits[(n % 10) + 1]>>
UsageText(u) ==
    IF ~u.present THEN Absent
    ELSE <<"{">> \o Text.input_tokens \o <<":">> \o Decimal(u.input_tokens)
         \o <<",">> \o Text.output_tokens \o <<":">>
         \o Decimal(u.output_tokens) \o <<"}">>
InputText(i) ==
    IF ~i.present THEN Absent
    ELSE <<"{">>
         \o Commas(Field(Text.pattern, i.pattern)
                   \o Field(Text.file_path, i.file_path))
         \o <<"}">>
BlockText(b) ==
    <<"{">>
    \o Commas(Field(Text.type, b.type) \o Field(Text.text, b.text)
              \o Field(Text.name, b.name)
              \o Field(Text.input, InputText(b.input)))
    \o <<"}">>
ContentText(c) ==
    IF c.form = "array"
    THEN <<"[">> \o Commas([k \in 1..Len(c.blocks) |-> BlockText(c.blocks[k])])
         \o <<"]">>
    ELSE c.text
MessageText(m) ==
    IF ~m.present THEN Absent
    ELSE <<"{">>
         \o Commas((IF m.role THEN Field(Text.role, Text.assistant) ELSE <<>>)
                   \o <<Text.content \o <<":">> \o ContentText(m.content)>>)
         \o <<"}">>
Raw(l) ==
    IF l.form = "text" THEN l.raw
    ELSE <<"{">>
         \o Commas(Field(Text.type, l.type) \o Field(Text.subtype, l.subtype)
                   \o Field(Text.message, MessageText(l.message))
                   \o Field(Text.session_id, l.session_id)
                   \o Field(Text.usage, UsageText(l.usage))
                   \o Field(Text.error, l.error))
         \o <<"}">>

\* serde_json::from_str::<ClaudeJsonEvent>: the line must be an object with
\* a "type", a message must have its role, and the token counts of a usage
\* must fit a u32.
Decodes(l) ==
    /\ l.form = "json"
    /\ l.type # Absent
    /\ l.message.present => l.message.role
    /\ l.usage.present
          => /\ l.usage.input_tokens <= U32Max
             /\ l.usage.output_tokens <= U32Max

\* ------------------------------------------------- parse_claude_json_event
NoEvent == [kind |-> "none"]
Panic == [kind |-> "panic"]

\* u32 `+`: the sum when it fits; otherwise the build decides, a panic with
\* overflow checks on and the wrapped sum with them off.
AddU32(a, b) ==
    IF a + b <= U32Max THEN {[ok |-> TRUE, v |-> a + b]}
    ELSE {[ok |-> FALSE, v |-> 0], [ok |-> TRUE, v |-> (a + b) % (U32Max + 1)]}

\* A deliberately wrong "result" arm: a usage payload is reported whatever
\* the subtype.
ResultEventsUsageFirst(l) ==
    IF l.usage.present
    THEN {[kind |-> "TokenUsage", input |-> l.usage.input_tokens,
           output |-> l.usage.output_tokens,
           total |-> (l.usage.input_tokens + l.usage.output_tokens)
                         % (U32Max + 1)]}
    ELSE IF l.subtype = Text.error
         THEN {[kind |-> "Error",
                message |-> IF l.error = Absent THEN Text.unknown
                            ELSE l.error]}
         ELSE {[kind |-> "Complete"]}

\* The "result" arm.
ResultEvents(l) ==
    IF l.subtype = Text.success
    THEN IF l.usage.present
         THEN {IF s.ok
               THEN [kind |-> "TokenUsage", input |-> l.usage.input_tokens,
                     output |-> l.usage.output_tokens, total |-> s.v]
               ELSE Panic :
               s \in AddU32(l.usage.input_tokens, l.usage.output_tokens)}
         ELSE {[kind |-> "Complete"]}
    ELSE IF l.subtype = Text.error
         THEN {[kind |-> "Error",
                message |-> IF l.error = Absent THEN Text.unknown
                            ELSE l.error]}
         ELSE {[kind |-> "Complete"]}

\* The options of every PermissionRequest.
Menu == <<Text.option1, Text.option2, Text.option3>>

\* Vec<String>::join("\n").
Nl == "\n"
RECURSIVE JoinLines(_)
JoinLines(ls) ==
    IF ls = <<>> THEN <<>>
    ELSE IF Len(ls) = 1 THEN ls[1]
    ELSE ls[1] \o <<Nl>> \o JoinLines(Tail(ls))

\* path.split('/').last()
RECURSIVE LastSegment(_)
LastSegment(path) ==
    IF \E k \in 1..Len(path) : path[k] = "/"
    THEN LastSegment(Tail(path))
    ELSE path

\* The "system" arm.
SystemEvents(l) ==
    IF l.subtype = Absent THEN {NoEvent}
    ELSE IF l.subtype = Text.init
         THEN {[kind |-> "Status", message |-> Text.initialized]}
    ELSE IF l.subtype = Text.permission_request
         THEN {[kind |-> "PermissionRequest",
                prompt |-> IF l.message.present
                           THEN Text.permissionOf
                                \o ContentText(l.message.content)
                           ELSE Text.permissionPlain,
                options |-> Menu]}
    ELSE {[kind |-> "Status", message |-> Text.systemPrefix \o l.subtype]}

\* The lines one tool_use block adds to tool_usage (of the tools with lines
\* of their own, Glob and Read are in the input set).
ToolLines(b) ==
    IF b.type # Text.tool_use \/ b.name = Absent \/ ~b.input.present
    THEN <<>>
    ELSE <<Text.using \o b.name>>
         \o (IF b.name = Text.Glob
             THEN IF b.input.pattern # Absent
                  THEN <<Text.searching \o b.input.pattern>> ELSE <<>>
             ELSE IF b.name = Text.Read
             THEN IF b.input.file_path # Absent
                  THEN <<Text.reading \o LastSegment(b.input.file_path)>>
                  ELSE <<>>
             ELSE <<Text.executing \o b.name>>)
RECURSIVE ToolUsage(_)
ToolUsage(bs) ==
    IF bs = <<>> THEN <<>> ELSE ToolLines(Head(bs)) \o ToolUsage(Tail(bs))

\* text_content after the loop over the blocks bs, starting from acc: a
\* line feed goes in before a text only when text_content is not empty.
RECURSIVE TextContent(_, _)
TextContent(bs, acc) ==
    IF bs = <<>> THEN acc
    ELSE LET b == Head(bs) IN
         IF b.type = Text.text /\ b.text # Absent
         THEN TextContent(Tail(bs),
                          (IF acc # <<>> THEN acc \o <<Nl>> ELSE acc)
                          \o b.text)
         ELSE TextContent(Tail(bs), acc)

\* The "assistant" arm.
AssistantEvents(l) ==
    IF ~l.message.present THEN {NoEvent}
    ELSE LET c == l.message.content
             fallback == [kind |-> "Response", content |-> ContentText(c)]
         IN  IF c.form # "array" THEN {fallback}
             ELSE IF ToolUsage(c.blocks) # <<>>
                  THEN {[kind |-> "Thinking",
                         message |-> JoinLines(ToolUsage(c.blocks))]}
             ELSE IF TextContent(c.blocks, <<>>) # <<>>
                  THEN {[kind |-> "Response",
                         content |-> TextContent(c.blocks, <<>>)]}
             ELSE {fallback}

\* The arm for lines that are no ClaudeJsonEvent.
PermissionCue(trimmed) ==
    \/ StartsWith(trimmed, Text.requested)
    \/ /\ Contains(trimmed, Text.permission)
       /\ Contains(trimmed, Text.Allow) \/ Contains(trimmed, Text.Deny)
ThinkingCue(lower) ==
    Contains(lower, Text.thinking) \/ Contains(lower, Text.processing)
\* A deliberately wrong error test: one of the two words is enough.
ErrorCueEither(lower) ==
    Contains(lower, Text.error) \/ Contains(lower, Text.failed)
ErrorCue(lower) == Contains(lower, Text.error) /\ Contains(lower, Text.failed)
\* A variant of the arm whose permission request quotes the line.
TextEventsRawPrompt(trimmed) ==
    IF PermissionCue(trimmed)
    THEN {[kind |-> "PermissionRequest", prompt |-> trimmed,
           options |-> Menu]}
    ELSE IF ThinkingCue(ToLowercase(trimmed))
         THEN {[kind |-> "Thinking", message |-> trimmed]}
    ELSE IF ErrorCue(ToLowercase(trimmed))
         THEN {[kind |-> "Error", message |-> trimmed]}
    ELSE {NoEvent}
TextEvents(trimmed) ==
    IF PermissionCue(trimmed)
    THEN {[kind |-> "PermissionRequest", prompt |-> Text.permissionText,
           options |-> Menu]}
    ELSE IF ThinkingCue(ToLowercase(trimmed))
         THEN {[kind |-> "Thinking", message |-> trimmed]}
    ELSE IF ErrorCue(ToLowercase(trimmed))
         THEN {[kind |-> "Error", message |-> trimmed]}
    ELSE {NoEvent}

\* A variant of the dispatch that reports event types it does not know as a
\* Status instead of dropping them.
ParseEventsEchoType(l) ==
    LET trimmed == Trim(Raw(l)) IN
    IF trimmed = <<>> THEN {NoEvent}
    ELSE IF Decodes(l)
         THEN IF l.type = Text.system THEN SystemEvents(l)
              ELSE IF l.type = Text.assistant THEN AssistantEvents(l)
              ELSE IF l.type = Text.result THEN ResultEvents(l)
              ELSE {[kind |-> "Status", message |-> l.type]}
         ELSE TextEvents(trimmed)

\* What parse_claude_json_event can return for line l.
ParseEvents(l) ==
    LET trimmed == Trim(Raw(l)) IN
    IF trimmed = <<>> THEN {NoEvent}
    ELSE IF Decodes(l)
         THEN IF l.type = Text.system THEN SystemEvents(l)
              ELSE IF l.type = Text.assistant THEN AssistantEvents(l)
              ELSE IF l.type = Text.result THEN ResultEvents(l)
              ELSE {NoEvent}
         ELSE TextEvents(trimmed)

\* --------------------------------------------------- codec specification
NoLine == [form |-> "text", raw |-> <<>>]
Pending == [kind |-> "pending"]

\* The "result" arm is reached with a session id: the codec goes to the
\* tracker.
StoresSessionId(l) ==
    Trim(Raw(l)) # <<>> /\ Decodes(l) /\ l.type = Text.result
        /\ l.session_id # Absent

\* The codec is applied to the line in hand; with the tracker's mutex free
\* its try_lock succeeds and the session id of a result event is stored.
Parse ==
    /\ out = Pending
    /\ out' \in ParseEvents(line)
    /\ currentSessionId' =
          IF StoresSessionId(line) /\ currentLock = 0
          THEN line.session_id ELSE currentSessionId
    /\ UNCHANGED <<line, sessVars, ioVars, currentLock, xpc, xline, xarg,
                   todoVars, pathVars, lkVars, raceVars>>

\* Any line of the bounded input set, with no session around.
InitCodec ==
    /\ InitSessions
    /\ line \in Lines
    /\ out = Pending
    /\ currentSessionId \in {Absent, Text.s2}
    /\ currentLock = 0
    /\ xpc = [t \in Tasks |-> "idle"]
    /\ xline = [t \in Tasks |-> NoLine]
    /\ xarg = [t \in Tasks |-> Absent]
    /\ InitTodos
    /\ InitPath
    /\ InitLocks
    /\ InitRace

CodecNext == Parse

CodecSpec == InitCodec /\ [][CodecNext]_vars

\* ------------------------------------- execute_claude_command_streaming
\* Concurrent invocations of the command share CURRENT_SESSION_ID. Each
\* reads it once before it runs the process and hands every output line to
\* the codec, whose "result" arm writes it.

\* Output lines that matter to the tracker: decoded events of type result
\* or user, with or without a session id.
TrackedLines ==
    {l \in ResultLines :
        /\ l.type \in {Text.result, Text.user}
        /\ l.subtype = Text.success
        /\ ~l.usage.present
        /\ l.error = Absent}

\* The command is invoked: try_lock on the tracker. With the guard it goes
\* on to read the id; without it no --session-id is passed.
ExecInvoke(t) ==
    /\ xpc[t] = "idle"
    /\ IF currentLock = 0
       THEN /\ currentLock' = t
            /\ xpc' = [xpc EXCEPT ![t] = "x_read"]
            /\ xarg' = xarg
       ELSE /\ currentLock' = currentLock
            /\ xpc' = [xpc EXCEPT ![t] = "x_run"]
            /\ xarg' = [xarg EXCEPT ![t] = Absent]
    /\ xline' = [xline EXCEPT ![t] = NoLine]
    /\ UNCHANGED <<currentSessionId, codecVars, pathVars, lkVars, raceVars, sessVars, ioVars,
                   todoVars>>

\* Under the guard the id is copied into the arguments; the guard drops.
ExecReadId(t) ==
    /\ xpc[t] = "x_read"
    /\ xarg' = [xarg EXCEPT ![t] = currentSessionId]
    /\ currentLock' = 0
    /\ xpc' = [xpc EXCEPT ![t] = "x_run"]
    /\ UNCHANGED <<currentSessionId, xline, codecVars, pathVars, lkVars, raceVars, sessVars, ioVars,
                   todoVars>>

\* The next output line l goes to the codec. A result event with a session
\* id makes it try_lock the tracker: with the guard it goes on to store the
\* id, without it the store is skipped; any other line passes the tracker by.
ExecLine(t, l) ==
    /\ xpc[t] = "x_run"
    /\ xline' = [xline EXCEPT ![t] = l]
    /\ IF StoresSessionId(l) /\ currentLock = 0
       THEN /\ currentLock' = t
            /\ xpc' = [xpc EXCEPT ![t] = "x_store"]
       ELSE /\ currentLock' = currentLock
            /\ xpc' = [xpc EXCEPT ![t] = "x_parsed"]
    /\ UNCHANGED <<currentSessionId, xarg, codecVars, pathVars, lkVars, raceVars, sessVars, ioVars,
                   todoVars>>

\* Under the guard the session id is stored; the guard drops and the codec
\* returns.
ExecStore(t) ==
    /\ xpc[t] = "x_store"
    /\ currentSessionId' = xline[t].session_id
    /\ currentLock' = 0
    /\ xpc' = [xpc EXCEPT ![t] = "x_parsed"]
    /\ UNCHANGED <<xline, xarg, codecVars, pathVars, lkVars, raceVars, sessVars, ioVars,
                   todoVars>>

\* The event, if any, is emitted and the loop goes to the next line.
ExecEmit(t) ==
    /\ xpc[t] = "x_parsed"
    /\ xpc' = [xpc EXCEPT ![t] = "x_run"]
    /\ UNCHANGED <<currentSessionId, currentLock, xline, xarg, codecVars, pathVars, lkVars, raceVars,
                   sessVars, ioVars, todoVars>>

\* The output is exhausted and the command returns.
ExecReturn(t) ==
    /\ xpc[t] = "x_run"
    /\ xpc' = [xpc EXCEPT ![t] = "idle"]
    /\ UNCHANGED <<currentSessionId, currentLock, xline, xarg, codecVars, pathVars, lkVars, raceVars,
                   sessVars, ioVars, todoVars>>

TrackerNext ==
    \/ \E t \in Tasks : ExecInvoke(t)
    \/ \E t \in Tasks : ExecReadId(t)
    \/ \E t \in Tasks, l \in TrackedLines : ExecLine(t, l)
    \/ \E t \in Tasks : ExecStore(t)
    \/ \E t \in Tasks : ExecEmit(t)
    \/ \E t \in Tasks : ExecReturn(t)

TrackerSpec == Init /\ [][TrackerNext]_vars

\* ------------------------------------------------------------ todo store
\* The todo commands and the two extraction paths of the output pump, one
\* operation at a time, on the todo file of one project.
MaxItems == 2      \* items of one extraction
MaxUuid == 1       \* todos added by hand
MaxStore == 3      \* todos in the file

\* The ballot box character U+2610 that starts a todo item in the terminal,
\* and a CJK character; each is three bytes of UTF-8, any other character of
\* the texts below is one.
Box == "BOX"
Cjk == "CJK"
Utf8Len(c) == IF c \in {Box, Cjk} THEN 3 ELSE 1

\* str::len(): the length of a string in bytes.
RECURSIVE ByteLen(_)
ByteLen(s) == IF s = <<>> THEN 0 ELSE Utf8Len(Head(s)) + ByteLen(Tail(s))

TodoText ==
    [updateTodos |-> <<"U", "p", "d", "a", "t", "e", " ", "T", "o", "d", "o", "s">>,
     docs |-> <<"w", "r", "i", "t", "e", " ", "t", "h", "e", " ", "d", "o", "c", "s">>,
     build |-> <<"f", "i", "x", " ", "t", "h", "e", " ", "b", "u", "i", "l", "d">>,
     boxItem |-> <<Box, " ">>,
     wide |-> <<" ", " ", " ", " ", " ">>,
     boxDocs |-> <<Box, " ", "w", "r", "i", "t", "e", " ", "t", "h", "e", " ", "d",
          "o", "c", "s">>,
     boxBuild |-> <<" ", " ", Box, " ", "f", "i", "x", " ", "t", "h", "e", " ", "b",
          "u", "i", "l", "d">>,
     boxShort |-> <<Box, " ", "f", "i", "x", " ", "i", "t">>,
     boxWide |-> <<Box, " ", " ", " ", " ", " ", " ", "w", "r", "i", "t", "e", " ",
          "t", "h", "e", " ", "d", "o", "c", "s">>,
     noteBuild |-> <<"s", "e", "e", " ", Box, " ", "f", "i", "x", " ", "t", "h", "e",
          " ", "b", "u", "i", "l", "d">>,
     boxCjk |-> <<Box, " ", Cjk, Cjk, Cjk, Cjk>>]

\* str::replace(pat, ""): every non-overlapping match, left to right.
RECURSIVE RemoveAll(_, _)
RemoveAll(s, pat) ==
    IF Len(s) < Len(pat) THEN s
    ELSE IF StartsWith(s, pat)
         THEN RemoveAll(SubSeq(s, Len(pat) + 1, Len(s)), pat)
         ELSE <<Head(s)>> \o RemoveAll(Tail(s), pat)

\* Terminal chunks handed to handle_human_readable_todos, as lines.
Datas ==
    {<<TodoText.updateTodos, TodoText.boxDocs>>,
     <<TodoText.updateTodos, TodoText.boxBuild, TodoText.boxDocs>>,
     <<TodoText.boxDocs>>,
     <<TodoText.updateTodos, TodoText.boxShort>>,
     <<TodoText.updateTodos, TodoText.boxWide, TodoText.noteBuild>>,
     <<TodoText.updateTodos, TodoText.boxCjk, TodoText.boxDocs>>,
     <<TodoText.updateTodos, TodoText.boxBuild>>}

\* Ids: what TodoWrite supplies, "human-{session}-{counter}", and uuids.
ToolIds == {<<"id", 1>>, <<"id", 2>>}
HumanId(s, k) == <<"human", s, k>>
UuidId(n) == <<"uuid", n>>

\* The content of a todo line, or nothing when the line is no todo item.
ItemContent(ln) ==
    LET l == Trim(ln) IN
    IF ~Contains(l, TodoText.boxItem) THEN <<>>
    ELSE LET content ==
               Trim(RemoveAll(RemoveAll(l, TodoText.boxItem), TodoText.wide))
         IN  IF content # <<>> /\ ByteLen(content) > 10 THEN content ELSE <<>>

\* The todos parsed from the lines of data from position k on, the next
\* one numbered todo_counter.
RECURSIVE HumanItems(_, _, _, _)
HumanItems(s, data, k, todo_counter) ==
    IF k > Len(data) THEN <<>>
    ELSE LET content == ItemContent(data[k]) IN
         IF content = <<>> THEN HumanItems(s, data, k + 1, todo_counter)
         ELSE <<[id |-> HumanId(s, todo_counter), content |-> content,
                 status |-> "pending", priority |-> "medium"]>>
              \o HumanItems(s, data, k + 1, todo_counter + 1)

\* What handle_human_readable_todos parses from each chunk.
HumanParsed ==
    [s \in Ids, data \in Datas |->
        IF \E k \in 1..Len(data) : Contains(data[k], TodoText.updateTodos)
        THEN HumanItems(s, data, 1, 1) ELSE <<>>]

\* ================================================================= claims
\* A pump task is running from its spawn until it has ended.
PumpRunning(e) == pump[e].pc \notin {"none", "done"}
PumpsOf(i) == {e \in Entries : entryId[e] = i /\ PumpRunning(e)}

\* C1: for every session id, at most one output pump task for that id is
\* running (spawned and not yet ended) at any time.
C1_AtMostOnePumpPerId == \A i \in Ids : Cardinality(PumpsOf(i)) <= 1

\* C2: whenever start, or resume on its recreate path, returns success, a
\* pump has been spawned for the entry the command has just stored.
C2_SuccessSpawnsPump ==
    (ev.op \in {"start", "resume"} /\ ev.ret = "ok" /\ ev.new # 0)
        => pump[ev.new].pc = "spawned"

\* The step of task ev.t was part of a resume of a registered session whose
\* child is running, with no other command in flight and no wait error.
QuietResumeOnRunning ==
    /\ ev.op = "resume"
    /\ ev.solo
    /\ ev.had # 0
    /\ child[ev.had] = "running"
    /\ ev.wait # "err"

\* C3: resume called twice in succession on a session whose child is
\* running returns the id both times, spawns no pump, leaves the registry
\* entry as it was, and leaves the id in the active-handlers set.
C3_ResumeTwiceIdempotent ==
    /\ (QuietResumeOnRunning /\ ev.health # "none")
          => /\ ev.health = "true"
             /\ ev.ret = "ok"
             /\ ev.new = 0
             /\ sessions[ev.id] = ev.had
    /\ (ev.op = "resume" /\ ev.ret = "ok" /\ streak[ev.id] = 2)
          => ev.id \in handlers

\* C4: whatever runs concurrently, a resume that finds the id registered
\* with a child that has not exited (and whose wait did not error) takes
\* the fast path: its health check never fails, so it never goes on to kill
\* the child and replace the entry.
C4_ResumeKeepsRunningSession ==
    (ev.op = "resume" /\ ev.had # 0 /\ child[ev.had] = "running"
        /\ ev.wait # "err")
        => ev.health # "false"

\* C5: a health check answers true only if the registry holds the id and
\* the non-blocking wait reported, without error, that the child has not
\* exited.
C5_HealthTrueOnlyIfRunning ==
    ev.health = "true"
        => /\ ev.had # 0
           /\ sessions[ev.id] = ev.had
           /\ child[ev.had] = "running"
           /\ ev.wait = "running"

C5_HealthTrueReached == ev.op = "write" /\ ev.health = "true"

\* C6: a write invoked on a registered session whose child has exited never
\* gets past the health check (so it writes and flushes nothing) and fails
\* with the not-healthy error.
C6_WriteOnDeadFails ==
    /\ \A t \in Tasks :
          (op[t] = "write" /\ pre[t] = "dead") => pc[t] \in {"w_h1", "w_h2"}
    /\ (ev.op = "write" /\ ev.pre = "dead" /\ ev.ret # "none")
          => ev.ret = "unhealthy"

C6_DeadWriteReached ==
    /\ ev.op = "write"
    /\ ev.pre = "dead"
    /\ ev.had # 0
    /\ ev.wait = "exited"
    /\ ev.ret = "unhealthy"

\* C7: a write on an id the registry does not hold fails with the
\* not-found error, not with the not-healthy one.
C7_WriteAbsentNotFound ==
    (ev.op = "write" /\ ev.ret # "none" /\ ev.had = 0)
        => ev.ret = "not_found"

\* C8: an id closed successfully is absent from the registry until a resume
\* stores it again; write, resize, health check and close invoked on it in
\* the meantime all fail.
C8_ClosedIsAbsent ==
    /\ \A i \in closedIds : sessions[i] = 0
    /\ (ev.pre = "closed" /\ ev.ret # "none"
           /\ ev.op \in {"write", "resize", "close"})
          => ev.ret \in {"unhealthy", "not_found"}
    /\ (ev.pre = "closed" /\ ev.health # "none") => ev.health = "false"

C8_ClosedUseReached ==
    /\ ev.pre = "closed"
    /\ ev.op \in {"write", "resize", "close"}
    /\ ev.ret \in {"unhealthy", "not_found"}
    /\ ev.id \in closedIds

\* C9: close on a registered id returns success and leaves the id without
\* an entry, whatever the attempt to kill the child yields.
C9_CloseAlwaysRemoves ==
    (ev.op = "close" /\ ev.ret # "none" /\ ev.had # 0)
        => /\ ev.ret = "ok"
           /\ sessions[ev.id] = 0

C9_KillFailedReached ==
    /\ ev.op = "close"
    /\ ev.had # 0
    /\ ev.kill = "err"
    /\ ev.ret = "ok"

\* ------------------------------------------------------------- liveness
\* A pump step the scheduler and the operating system are bound to let
\* happen: any step but a read on a pty whose child still runs (that read
\* may block for ever).
PumpEnds(e) ==
    /\ pump[e].pc = "read" => child[pump[e].pty] # "running"
    /\ PumpStep(e)

\* Commands in flight keep being scheduled; pumps make the steps above.
LiveSpec ==
    /\ Spec
    /\ \A t \in Tasks : WF_vars(TaskStep(t))
    /\ \A e \in Entries : WF_vars(PumpEnds(e))

\* A close of id has just returned success while pump e, spawned for id, is
\* still running.
ClosedUnderPump(e) ==
    /\ ev.op = "close"
    /\ ev.ret = "ok"
    /\ entryId[e] = ev.id
    /\ PumpRunning(e)

\* Pump e has ended and its id is out of the active-handlers set.
PumpGone(e) == pump[e].pc = "done" /\ entryId[e] \notin handlers

\* Pump e reads the pty of the entry registered under its id.
PumpServes(e) ==
    pump[e].pc = "read" /\ sessions[entryId[e]] = pump[e].pty

\* C10: once close(id) has returned success, every pump still running for
\* id eventually ends, with id out of the active-handlers set when it does
\* (a pump that had not looked its pty up yet may instead come to serve an
\* entry that a later resume stores under id).
C10_ClosedPumpEnds ==
    \A e \in Entries : ClosedUnderPump(e) ~> (PumpGone(e) \/ PumpServes(e))

C10_CloseWithPumpReached ==
    /\ ev.op = "close"
    /\ ev.ret = "ok"
    /\ ev.kill = "ok"
    /\ \E e \in Entries :
          /\ entryId[e] = ev.id
          /\ pump[e].pc = "read"
          /\ pump[e].pty = ev.had

\* C11: the step that ends a pump, on end-of-stream or on a read error,
\* takes the pump's id out of the active-handlers set and leaves the
\* registry as it is; an id loses its registry entry only in a step of
\* close or of resume's teardown.
C11_PumpExitFrame ==
    [][/\ \A e \in Entries :
             (PumpRunning(e) /\ pump'[e].pc = "done")
                 => /\ entryId[e] \notin handlers'
                    /\ sessions' = sessions
       /\ \A i \in Ids :
             (sessions[i] # 0 /\ sessions'[i] = 0)
                 => /\ ev'.op \in {"close", "resume"}
                    /\ ev'.id = i
                    /\ pc[ev'.t] \in {"c_body", "r_clean"}]_vars

\* A pump has ended after reading the pty of an entry that is still
\* registered.
C11_PumpEndedEntryKept ==
    \E e \in Entries :
        /\ pump[e].pc = "done"
        /\ pump[e].pty # 0
        /\ sessions[entryId[e]] = pump[e].pty

\* The lines published as raw terminal output so far, in channel order.
RECURSIVE RawLines(_)
RawLines(q) ==
    IF q = <<>> THEN <<>>
    ELSE (IF Head(q).topic = "terminal_output" THEN Head(q).data ELSE <<>>)
            \o RawLines(Tail(q))

SerialsOf(ls) == [k \in 1..Len(ls) |-> ls[k].n]
InSeq(n, ls) == \E k \in 1..Len(ls) : ls[k].n = n

\* C12: a line whose todo handling failed does not end the pump: its block
\* is still being handled, or has been published as raw output; the pump
\* only ever ends between two blocks, on the outcome of a read.
C12_HandlerFailureNotFatal ==
    /\ \A n \in failed :
          \/ ppc = "line" /\ InSeq(n, chunk)
          \/ InSeq(n, RawLines(published))
    /\ ppc = "done" => chunk = <<>>

\* After a failed line the block was published and a further block read.
C12_ReadOnAfterFailure ==
    /\ ppc = "line"
    /\ chunk # <<>>
    /\ \E n \in failed : InSeq(n, RawLines(published))

\* C13: the raw output published, followed by the block in hand and by what
\* is still unread, is exactly what the child wrote, in the order written: no
\* block is published twice, dropped or overtaken; every raw notification
\* carries a non-empty block and the id of the pump's session.
C13_PublishedInReadOrder ==
    /\ SerialsOf(RawLines(published) \o chunk \o ptyBuf)
          = [k \in 1..nOut |-> k]
    /\ \A k \in 1..Len(published) :
          /\ published[k].data # <<>>
          /\ \A e \in Entries :
                pump[e].pty = e => published[k].id = entryId[e]

\* Everything the child wrote has been published, in at least two blocks.
C13_TwoBlocksPublished ==
    \E j, k \in 1..Len(published) :
        /\ j < k
        /\ published[j].topic = "terminal_output"
        /\ published[k].topic = "terminal_output"
        /\ Len(RawLines(published)) = MaxLines

\* C14: every line of a published block that the event codec turns into an
\* event has exactly one "claude_stream" notification on the channel, and
\* no other line has one.
C14_OneEventPerLine ==
    LET raw == RawLines(published)
        EventNotes(l) ==
            {k \in 1..Len(published) :
                published[k].topic = "claude_stream"
                    /\ published[k].data = <<l>>}
    IN  \A j \in 1..Len(raw) :
            Cardinality(EventNotes(raw[j]))
                = IF raw[j].kind = "event" THEN 1 ELSE 0

\* Task t is writing to, or flushing, the writer of entry e.
Writing(t, e) == pc[t] = "w_io" /\ cur[t] = e

\* Task t, in close or in resume's clean-up, is killing the child of entry e.
Killing(t, e) == pc[t] \in {"c_kill", "r_kill"} /\ cur[t] = e

\* C15: on one session a write never races a kill: in no reachable state is
\* one task writing or flushing to an entry's writer while another task, in
\* close or in resume's teardown, is killing that entry's child.
C15_WriteNeverRacesKill ==
    \A e \in Entries : \A t \in Tasks : \A u \in Tasks :
        ~(Writing(t, e) /\ Killing(u, e))

\* A write is in progress on a session while a close of the same session
\* waits in the queue of the registry lock.
C15_CloseWaitsForWrite ==
    \E e \in Entries : \E t \in Tasks : \E u \in Tasks :
        /\ Writing(t, e)
        /\ pc[u] = "c_body"
        /\ sid[u] = sid[t]
        /\ rwHeld[u] = "none"

\* Command t is in flight and does not wait for the registry lock.
Runnable(t) ==
    /\ pc[t] # "idle"
    /\ \A k \in 1..Len(rwQueue) : rwQueue[k].proc # t

\* C16: a pump blocked in a pty read keeps no command waiting: whenever a
\* command is in flight and waits for no lock, a worker thread is free to
\* run it, whatever the pumps inside reader.read() are doing.
C16_ReadBlocksNoCommand ==
    \A t \in Tasks : Runnable(t) => WorkerFree

\* C17: a start that fails (the project path cannot be resolved, or the
\* pty, the child or the writer cannot be created) returns an error and
\* its step leaves the registry and the active-handlers set as they were
\* and spawns no pump.
C17_FailedStartChangesNothing ==
    [][(ev'.op = "start" /\ ev'.ret # "ok" /\ ev'.ret # "none")
          => /\ ev'.ret \in {"path_error", "spawn_error"}
             /\ sessions' = sessions
             /\ handlers' = handlers
             /\ pump' = pump]_vars

\* A start has just failed to create its child while a session is
\* registered and its pump runs.
C17_StartFailedBesideSession ==
    /\ ev.op = "start"
    /\ ev.ret = "spawn_error"
    /\ \E i \in Ids : sessions[i] # 0 /\ i \in handlers
    /\ \E e \in Entries : PumpRunning(e)

\* C18: resize fails with SessionNotFound when the id has no entry; with an
\* entry it succeeds or reports the pty's error; either way the command
\* runs no health check and its step leaves the registry, the handler set,
\* the children, the pumps and all output, read or unread, as they were.
C18_ResizeOnlyResizes ==
    [][/\ \A t \in Tasks :
             op[t] = "resize"
                 => pc[t] = "z_get" /\ \A e \in Entries : childLock[e] # t
       /\ (ev'.op = "resize" /\ ev'.ret # "none")
             => /\ ev'.had = 0 => ev'.ret = "not_found"
                /\ ev'.had # 0 => ev'.ret \in ResizeOutcomes
                /\ ev'.health = "none" /\ ev'.wait = "none"
                /\ childLock' = childLock /\ child' = child
                /\ sessions' = sessions /\ handlers' = handlers
                /\ pump' = pump /\ ppc' = ppc
                /\ ptyBuf' = ptyBuf /\ chunk' = chunk
                /\ published' = published]_vars

\* A resize of a registered session has just succeeded while output of its
\* child is waiting to be read.
C18_ResizedWithUnreadOutput ==
    /\ ev.op = "resize"
    /\ ev.ret = "ok"
    /\ ev.had # 0
    /\ ptyBuf # <<>>

\* Line l decodes as a result event with subtype "success" and a usage.
SuccessWithUsage(l) ==
    /\ Decodes(l)
    /\ l.type = Text.result
    /\ l.subtype = Text.success
    /\ l.usage.present

\* C19: for every line that decodes as a result event with subtype
\* "success" and a usage payload, whatever the two token counts, the codec
\* returns a TokenUsage event whose total is the sum of input and output.
C19_TokenTotalIsSum ==
    (out # Pending /\ SuccessWithUsage(line))
        => /\ out.kind = "TokenUsage"
           /\ out.input = line.usage.input_tokens
           /\ out.output = line.usage.output_tokens
           /\ out.total = line.usage.input_tokens + line.usage.output_tokens

\* The words of the claim, taken without regard to case, in text s.
Mentions(s, w) == Contains(ToLowercase(s), w)

\* C20: a line that does not decode as the event envelope and contains
\* neither "thinking" nor "processing", not both "error" and "failed" (all
\* without regard to case), and no mention of permission, yields no event.
C20_NoCueNoEvent ==
    (/\ out # Pending
     /\ ~Decodes(line)
     /\ ~Mentions(Raw(line), Text.thinking)
     /\ ~Mentions(Raw(line), Text.processing)
     /\ ~(Mentions(Raw(line), Text.error) /\ Mentions(Raw(line), Text.failed))
     /\ ~Mentions(Raw(line), Text.permission))
        => out = NoEvent

\* The codec has returned nothing for a non-empty line that is no event
\* envelope and has "error" in it, in some case, but not "failed".
C20_ErrorAloneDropped ==
    /\ out = NoEvent
    /\ ~Decodes(line)
    /\ Trim(Raw(line)) # <<>>
    /\ Mentions(Raw(line), Text.error)
    /\ ~Contains(Raw(line), Text.error)
    /\ ~Mentions(Raw(line), Text.failed)

\* Line l decodes as a result event with subtype "error".
ErrorResult(l) ==
    /\ Decodes(l)
    /\ l.type = Text.result
    /\ l.subtype = Text.error

\* C21: for every line that decodes as a result event with subtype "error"
\* the codec returns an Error event (hence no TokenUsage, with or without a
\* usage payload) whose message is the error field, or "Unknown error" when
\* the line has none.
C21_ErrorResultIsError ==
    (out # Pending /\ ErrorResult(line))
        => /\ out.kind = "Error"
           /\ line.error # Absent => out.message = line.error
           /\ line.error = Absent => out.message = Text.unknown

\* The codec has answered an error result that carries a usage payload and
\* no error field.
C21_ErrorWithUsageParsed ==
    /\ out # Pending
    /\ ErrorResult(line)
    /\ line.usage.present
    /\ line.error = Absent

\* Line l decodes as an assistant event whose message content parses as an
\* array of blocks.
ArrayMessage(l) ==
    /\ Decodes(l)
    /\ l.type = Text.assistant
    /\ l.message.present
    /\ l.message.content.form = "array"

\* The texts of the text blocks of bs, in block order.
IsTextBlock(b) == b.type = Text.text /\ b.text # Absent
TextsOf(bs) ==
    LET ts == SelectSeq(bs, IsTextBlock) IN [k \in 1..Len(ts) |-> ts[k].text]

\* C22: for an assistant event whose content is an array of blocks: with
\* at least one tool-usage line the codec returns a Thinking event carrying
\* all tool-usage lines joined by line feeds (no Response, text blocks or
\* not); otherwise, with some text in the text blocks, it returns a Response
\* whose content is the texts of the text blocks joined by line feeds in
\* block order.
C22_AssistantBlocks ==
    (out # Pending /\ ArrayMessage(line))
        => LET bs == line.message.content.blocks IN
           /\ ToolUsage(bs) # <<>>
                 => out = [kind |-> "Thinking",
                           message |-> JoinLines(ToolUsage(bs))]
           /\ (ToolUsage(bs) = <<>> /\ \E k \in 1..Len(bs) :
                                          IsTextBlock(bs[k]) /\ bs[k].text # <<>>)
                 => out = [kind |-> "Response",
                           content |-> JoinLines(TextsOf(bs))]

\* A tool_use block the arm can read: it has a name and an input.
IsToolBlock(b) ==
    b.type = Text.tool_use /\ b.name # Absent /\ b.input.present

\* The message of line l has no content: its content string is empty, or it
\* is an array with no text block and no readable tool_use block.
NoContent(l) ==
    LET c == l.message.content IN
    \/ c.form = "raw" /\ c.text = <<>>
    \/ c.form = "array"
          /\ \A k \in 1..Len(c.blocks) :
                ~IsTextBlock(c.blocks[k]) /\ ~IsToolBlock(c.blocks[k])

\* C23: an assistant event whose message has no content (an empty content
\* string, or a content array with no text block and no readable tool_use
\* block) yields no event.
C23_NoContentNoEvent ==
    (out # Pending /\ Decodes(line) /\ line.type = Text.assistant
       /\ line.message.present /\ NoContent(line))
        => out = NoEvent

\* The variants of ClaudeStreamEvent.
EventKinds ==
    {"Status", "Thinking", "TokenUsage", "ContextStatus", "PermissionRequest",
     "Response", "Error", "Complete"}

\* C24: one line gives at most one event, of one of the eight variants; a
\* decoded event of type "user", or of any type other than system,
\* assistant, user and result, gives no event, and so does a system event
\* without subtype.
C24_OneKnownEventOrNone ==
    out # Pending
        => /\ out \in {NoEvent, Panic} \/ out.kind \in EventKinds
           /\ (Decodes(line)
                 /\ line.type \notin {Text.system, Text.assistant, Text.result})
                 => out = NoEvent
           /\ (Decodes(line) /\ line.type = Text.system
                 /\ line.subtype = Absent)
                 => out = NoEvent

\* A decoded "user" event has been dropped.
C24_UserEventDropped ==
    out = NoEvent /\ Decodes(line) /\ line.type = Text.user

\* Line l is no ClaudeJsonEvent and carries both the permission wording and
\* an allow or deny cue.
PermissionLine(l) ==
    /\ ~Decodes(l)
    /\ Contains(Raw(l), Text.permission)
    /\ Contains(Raw(l), Text.Allow) \/ Contains(Raw(l), Text.Deny)

\* C25: a line that fails structured decoding and contains both the
\* permission wording and an allow or deny cue gives a PermissionRequest
\* whose prompt is the raw line (trimmed or not) and whose options are the
\* fixed three-option menu.
C25_PermissionPromptIsLine ==
    (out # Pending /\ PermissionLine(line))
        => /\ out.kind = "PermissionRequest"
           /\ out.prompt \in {Raw(line), Trim(Raw(line))}
           /\ out.options = <<Text.option1, Text.option2, Text.option3>>

\* C25 as amended: a line that fails structured decoding and contains both
\* the permission wording and an allow or deny cue gives a PermissionRequest
\* whose prompt is the fixed sentence "Claude is requesting permission to
\* access files or perform operations", whatever the line says, and whose
\* options are the fixed three-option menu.
C25_PermissionPromptIsFixed ==
    (out # Pending /\ PermissionLine(line))
        => /\ out.kind = "PermissionRequest"
           /\ out.prompt = Text.permissionText
           /\ out.options = <<Text.option1, Text.option2, Text.option3>>

\* A line with the permission wording and a deny cue became a request.
C25_DenyLineBecameRequest ==
    /\ out # Pending
    /\ PermissionLine(line)
    /\ Contains(Raw(line), Text.Deny)
    /\ out.kind = "PermissionRequest"

\* The items of a TodoWrite call; an item without id (or without another of
\* the four fields read) is skipped.
TodoItems ==
    [id : ToolIds \cup {Absent}, content : {TodoText.docs, TodoText.build},
     status : {"pending"}, priority : {"high"}]
ItemSeqs == UNION {[1..n -> TodoItems] : n \in 0..MaxItems}
HasFields(item) == item.id # Absent
ParsedTodos(items) == SelectSeq(items, HasFields)

\* Vec::retain(|t| t.id != id).
Retain(todos, id) ==
    LET Other(t) == t.id # id IN SelectSeq(todos, Other)

\* save_todos_directly's loop: each new todo replaces the stored todos with
\* its id and goes to the end.
RECURSIVE MergeTodos(_, _)
MergeTodos(all_todos, todos) ==
    IF todos = <<>> THEN all_todos
    ELSE MergeTodos(Append(Retain(all_todos, Head(todos).id), Head(todos)),
                    Tail(todos))

\* What save_todos_directly reads: the file parsed as Vec<Todo>, or nothing
\* when there is no file or it is not a bare array.
LoadDirect == IF todosFile.format = "array" THEN todosFile.todos ELSE <<>>

\* What load_project_todos reads: either format, or nothing without a file.
LoadProjectTodos == todosFile.todos

\* get_session_project_path: the project of a registered session.
Registered(s) == sessions[s] # 0
ProjectPath(s) == <<"project", s>>

Failed(o, s) ==
    [NoTodoEv EXCEPT !.op = o, !.sessionId = s]

\* handle_human_readable_todos(session s, chunk data). LAST_PROCESSED_CONTENT
\* is a `static mut` that every pump reads and writes without
\* synchronisation, so whether the chunk counts as already processed (dup)
\* is not determined by this caller alone. dirOk: the project directory
\* exists and the file can be written.
HandleHumanReadableTodos(s, data, dup, dirOk) ==
    LET todos == HumanParsed[s, data]
        merged == MergeTodos(LoadDirect, todos)
    IN  /\ Len(merged) <= MaxStore
        /\ IF dup \/ todos = <<>> \/ ~Registered(s) \/ ~dirOk
           THEN /\ todoEv' = Failed("human", s)
                /\ UNCHANGED todosFile
           ELSE /\ todosFile' = [format |-> "array", todos |-> merged]
                /\ todoEv' = [op |-> "human", saved |-> TRUE,
                              emitted |-> TRUE, incoming |-> todos,
                              payload |-> todos, sessionId |-> s,
                              projectPath |-> ProjectPath(s), data |-> data]
        /\ UNCHANGED <<uuids, codecVars, pathVars, lkVars, raceVars, trackVars, sessVars, ioVars>>

\* handle_todowrite_in_terminal for a line whose TodoWrite call carries
\* items, through handle_todowrite_tool and save_project_todos. resolves:
\* get_real_project_path finds the directory and the file can be written.
HandleTodowriteTool(s, items, resolves) ==
    LET parsed_todos == ParsedTodos(items) IN
    /\ IF ~Registered(s) \/ ~resolves
       THEN /\ todoEv' = Failed("tool", s)
            /\ UNCHANGED todosFile
       ELSE /\ todosFile' = [format |-> "wrapped", todos |-> parsed_todos]
            /\ todoEv' = [op |-> "tool", saved |-> TRUE, emitted |-> TRUE,
                          incoming |-> parsed_todos,
                          payload |-> parsed_todos, sessionId |-> s,
                          projectPath |-> ProjectPath(s), data |-> <<>>]
    /\ UNCHANGED <<uuids, codecVars, pathVars, lkVars, raceVars, trackVars, sessVars, ioVars>>

\* add_todo: load, push a todo with a fresh uuid, save.
AddTodo(content, priority, resolves) ==
    /\ uuids < MaxUuid
    /\ Len(LoadProjectTodos) < MaxStore
    /\ uuids' = uuids + 1
    /\ IF ~resolves
       THEN /\ todoEv' = Failed("add", 0)
            /\ UNCHANGED todosFile
       ELSE /\ todosFile' =
                  [format |-> "wrapped",
                   todos |-> Append(LoadProjectTodos,
                                    [id |-> UuidId(uuids + 1),
                                     content |-> content,
                                     status |-> "pending",
                                     priority |-> priority])]
            /\ todoEv' = [NoTodoEv EXCEPT !.op = "add", !.saved = TRUE]
    /\ UNCHANGED <<codecVars, pathVars, lkVars, raceVars, trackVars, sessVars, ioVars>>

\* update_todo_status: the first todo with the id gets the status; without
\* one the command fails.
UpdateTodoStatus(todo_id, new_status, resolves) ==
    LET todos == LoadProjectTodos
        Hit(k) == todos[k].id = todo_id
        hits == {k \in 1..Len(todos) : Hit(k)}
    IN  /\ IF hits = {} \/ ~resolves
           THEN /\ todoEv' = Failed("update", 0)
                /\ UNCHANGED todosFile
           ELSE LET first == CHOOSE k \in hits : \A j \in hits : k <= j IN
                /\ todosFile' =
                      [format |-> "wrapped",
                       todos |-> [todos EXCEPT ![first].status = new_status]]
                /\ todoEv' = [NoTodoEv EXCEPT !.op = "update", !.saved = TRUE]
        /\ UNCHANGED <<uuids, codecVars, pathVars, lkVars, raceVars, trackVars, sessVars, ioVars>>

\* delete_todo: load, drop every todo with the id, save.
DeleteTodo(todo_id, resolves) ==
    /\ IF ~resolves
       THEN /\ todoEv' = Failed("delete", 0)
            /\ UNCHANGED todosFile
       ELSE /\ todosFile' = [format |-> "wrapped",
                             todos |-> Retain(LoadProjectTodos, todo_id)]
            /\ todoEv' = [NoTodoEv EXCEPT !.op = "delete", !.saved = TRUE]
    /\ UNCHANGED <<uuids, codecVars, pathVars, lkVars, raceVars, trackVars, sessVars, ioVars>>

\* The ids a command may name.
TodoIdSet ==
    ToolIds \cup {HumanId(s, k) : s \in Ids, k \in 1..MaxItems}
            \cup {UuidId(n) : n \in 1..MaxUuid}

TodoNext ==
    \/ \E s \in Ids, data \in Datas, dup, dirOk \in BOOLEAN :
          HandleHumanReadableTodos(s, data, dup, dirOk)
    \/ \E s \in Ids, items \in ItemSeqs, resolves \in BOOLEAN :
          HandleTodowriteTool(s, items, resolves)
    \/ \E content \in {TodoText.docs, TodoText.build}, resolves \in BOOLEAN :
          AddTodo(content, "low", resolves)
    \/ \E id \in TodoIdSet, st \in {"pending", "completed"},
          resolves \in BOOLEAN : UpdateTodoStatus(id, st, resolves)
    \/ \E id \in TodoIdSet, resolves \in BOOLEAN : DeleteTodo(id, resolves)

\* A registered session, or none, and no todo file.
TodoSpec == InitStream /\ [][TodoNext]_vars

\* The codec of task t returns for the line it was handed.
DecodeEnds(t) == xpc[t] \in {"x_run", "x_store"} /\ xpc'[t] = "x_parsed"

\* C26: when the codec has decoded a result event with session id S, the
\* tracker holds S as the codec returns, whatever other tasks do at the
\* tracker meanwhile; a result event without session id leaves the tracker
\* as it was.
C26_TrackerHoldsDecodedId ==
    [][\A t \in Tasks :
          DecodeEnds(t)
            => IF xline'[t].type = Text.result
                    /\ xline'[t].session_id # Absent
               THEN currentSessionId' = xline'[t].session_id
               ELSE currentSessionId' = currentSessionId]_vars

\* C27: whatever extractions and todo commands have run, no two todos in
\* the file have the same id.
C27_StoredIdsUnique ==
    \A j, k \in 1..Len(todosFile.todos) :
        j # k => todosFile.todos[j].id # todosFile.todos[k].id

\* The ids of the todos of a list.
IdsOf(todos) == {todos[k].id : k \in 1..Len(todos)}

\* The last operation was an extraction that was written to the file.
Extracted == todoEv.op \in {"human", "tool"} /\ todoEv.saved

\* C28: when the file holds a todo with id X and an extraction produces id X
\* with another content, the file after the merge holds exactly one todo
\* with id X, and it has the new content.
C28_DuplicateIdReplaced ==
    [][Extracted'
         => \A k \in 1..Len(todoEv'.incoming) :
              LET new == todoEv'.incoming[k]
                  Same(t) == t.id = new.id
              IN  (\E j \in 1..Len(todosFile.todos) :
                       /\ todosFile.todos[j].id = new.id
                       /\ todosFile.todos[j].content # new.content)
                    => SelectSeq(todosFile'.todos, Same)
                         = <<[id |-> new.id, content |-> new.content,
                              status |-> new.status,
                              priority |-> new.priority]>>]_vars

\* C29: after an extraction is written, every todo that was in the file and
\* whose id is not among the incoming ids is still there, bare array or
\* wrapped object alike, with the incoming todos after them.
C29_OthersKeptIncomingAppended ==
    [][Extracted'
         => LET Kept(t) == t.id \notin IdsOf(todoEv'.incoming) IN
            todosFile'.todos
              = SelectSeq(todosFile.todos, Kept) \o todoEv'.incoming]_vars

\* C30: a "todos updated" notification goes out only after the file was
\* written, and it carries the list just written (the todos kept plus the
\* incoming ones), the project path and the session the todos came from.
C30_NotificationCarriesMergedList ==
    todoEv.emitted
        => /\ todoEv.saved
           /\ todoEv.payload = todosFile.todos
           /\ todoEv.projectPath = ProjectPath(todoEv.sessionId)
           /\ Registered(todoEv.sessionId)

\* ================================================ todos: persist and reload
\* save_project_todos, save_todos_directly and load_project_todos find the
\* file of a project through its path. Paths are character sequences.
MaxList == 2       \* todos in the list that is persisted

PathText ==
    [marker |-> <<"/", ".", "c", "l", "a", "u", "d", "e", "/", "p", "r", "o", "j", "e", "c", "t", "s", "/">>,
     home |-> <<"/", "h">>,
     app |-> <<"/", "a">>,
     dashed |-> <<"/", "a", "-", "b">>,
     slash |-> <<"/">>,
     dash |-> <<"-">>]

\* str::replace(pat, by): every non-overlapping match, left to right.
RECURSIVE Replace(_, _, _)
Replace(s, pat, by) ==
    IF Len(s) < Len(pat) THEN s
    ELSE IF StartsWith(s, pat)
         THEN by \o Replace(SubSeq(s, Len(pat) + 1, Len(s)), pat, by)
         ELSE <<Head(s)>> \o Replace(Tail(s), pat, by)

\* str::split(pat).collect(): the parts between the matches; part is the
\* part being read.
RECURSIVE Split(_, _, _)
Split(s, pat, part) ==
    IF Len(s) < Len(pat) THEN <<part \o s>>
    ELSE IF StartsWith(s, pat)
         THEN <<part>> \o Split(SubSeq(s, Len(pat) + 1, Len(s)), pat, <<>>)
         ELSE Split(Tail(s), pat, Append(part, Head(s)))

\* The project directories on disk, and the directory Claude keeps for each
\* under ~/.claude/projects: the path with every '/' replaced by '-'.
RealDirs == {PathText.app, PathText.dashed}
ClaudeDir(real) ==
    PathText.home \o PathText.marker
        \o Replace(real, PathText.slash, PathText.dash)
ProjectPaths == RealDirs \cup {ClaudeDir(real) : real \in RealDirs}
DirExists(dir) == dir \in ProjectPaths

\* get_real_project_path: the path a metadata file or a session log of the
\* directory names, or none for a directory that has neither.
RealProjectPath(project_path) ==
    {real \in RealDirs : project_path \in {real, ClaudeDir(real)}}
        \cup (IF project_path \in RealDirs THEN {Absent} ELSE {})

\* The directories in which load_project_todos looks for the file; Itself
\* stands for its second candidate when that is project_path itself, a
\* directory and no file.
Itself == <<"itself">>
TodosDirs(project_path) ==
    <<project_path,
      IF Contains(project_path, PathText.marker)
      THEN LET parts == Split(project_path, PathText.marker, <<>>) IN
           IF Len(parts) = 2
           THEN Replace(parts[2], PathText.dash, PathText.slash)
           ELSE Itself
      ELSE Itself>>

\* A file of todos: none, a bare array, or the wrapped object.
NoFile == [format |-> "none", todos |-> <<>>]
FileAt(disk, dir) == IF dir \in DOMAIN disk THEN disk[dir] ELSE NoFile
WriteAt(disk, dir, file) ==
    [d \in DOMAIN disk \cup {dir} |-> IF d = dir THEN file ELSE disk[d]]

\* load_project_todos on a disk: the first candidate that exists is read,
\* as Vec<Todo> or else as ProjectTodos; without a file, the empty list.
LoadedFrom(disk, project_path) ==
    LET dirs == TodosDirs(project_path)
        Found(k) == IF dirs[k] = Itself THEN DirExists(project_path)
                    ELSE FileAt(disk, dirs[k]).format # "none"
        Ok(todos) == [state |-> "ok", todos |-> todos]
    IN  IF Found(1) THEN Ok(FileAt(disk, dirs[1]).todos)
        ELSE IF Found(2)
             THEN IF dirs[2] = Itself THEN [state |-> "err", todos |-> <<>>]
                  ELSE Ok(FileAt(disk, dirs[2]).todos)
             ELSE Ok(<<>>)

RtTodos ==
    {[id |-> <<"id", 1>>, content |-> TodoText.docs, status |-> "pending",
      priority |-> "high"],
     [id |-> <<"id", 2>>, content |-> TodoText.build, status |-> "completed",
      priority |-> "high"],
     [id |-> UuidId(1), content |-> TodoText.docs, status |-> "in_progress",
      priority |-> "low"]}
RtLists == UNION {[1..n -> RtTodos] : n \in 0..MaxList}

\* A list, a project path and a writer, on a disk without todo files.
InitRoundTrip ==
    /\ InitSessions
    /\ InitTracker
    /\ InitTodos
    /\ InitRace
    /\ InitLocks
    /\ line = [form |-> "text", raw |-> <<>>]
    /\ out = [kind |-> "pending"]
    /\ rtProject \in ProjectPaths
    /\ rtTodos \in RtLists
    /\ rtWriter \in {"wrapped", "array"}
    /\ rtDisk = <<>>
    /\ rtLoaded = [state |-> "none", todos |-> <<>>]

RtFrame == UNCHANGED <<sessVars, ioVars, codecVars, trackVars, todoVars,
                       raceVars, lkVars, rtProject, rtTodos, rtWriter>>

\* save_project_todos(project_path, todos): the wrapped object goes to the
\* directory get_real_project_path answers (real).
SaveProjectTodos(real) ==
    /\ rtWriter = "wrapped"
    /\ rtDisk = <<>>
    /\ rtLoaded.state = "none"
    /\ real \in RealProjectPath(rtProject)
    /\ IF real = Absent \/ ~DirExists(real)
       THEN rtLoaded' = [state |-> "unsaved", todos |-> <<>>] /\ UNCHANGED rtDisk
       ELSE /\ rtDisk' = WriteAt(rtDisk, real,
                                 [format |-> "wrapped", todos |-> rtTodos])
            /\ UNCHANGED rtLoaded
    /\ RtFrame

\* save_todos_directly(project_path, todos): the bare array goes to
\* project_path itself, merged into what the file held as a bare array.
SaveTodosDirectly ==
    /\ rtWriter = "array"
    /\ rtDisk = <<>>
    /\ rtLoaded.state = "none"
    /\ LET file == FileAt(rtDisk, rtProject)
           all_todos == IF file.format = "array" THEN file.todos ELSE <<>>
       IN  IF ~DirExists(rtProject)
           THEN rtLoaded' = [state |-> "unsaved", todos |-> <<>>] /\ UNCHANGED rtDisk
           ELSE /\ rtDisk' =
                     WriteAt(rtDisk, rtProject,
                             [format |-> "array",
                              todos |-> MergeTodos(all_todos, rtTodos)])
                /\ UNCHANGED rtLoaded
    /\ RtFrame

\* load_project_todos(project_path) after the list was persisted.
Reload ==
    /\ rtDisk # <<>>
    /\ rtLoaded.state = "none"
    /\ rtLoaded' = LoadedFrom(rtDisk, rtProject)
    /\ UNCHANGED rtDisk
    /\ RtFrame

RoundTripNext ==
    \/ \E real \in RealDirs \cup {Absent} : SaveProjectTodos(real)
    \/ SaveTodosDirectly
    \/ Reload
RoundTripSpec == InitRoundTrip /\ [][RoundTripNext]_vars

\* The elements of a list.
Elems(todos) == {todos[k] : k \in 1..Len(todos)}
Reloaded == rtLoaded.state \in {"ok", "err"}

\* C31: a todo list that was persisted by either writer and then reloaded
\* with the reader comes back equal to the list as a set.
C31_PersistReloadRoundTrip ==
    Reloaded
        => rtLoaded.state = "ok" /\ Elems(rtLoaded.todos) = Elems(rtTodos)

\* C32: every operation that writes the todo file (structured extraction,
\* heuristic extraction, add, status update, delete) leaves it in the
\* wrapped-object format, and the reader returns the todos of the file
\* whichever of the two formats it has.
C32_WritersEmitWrapped ==
    /\ todoEv.saved => todosFile.format = "wrapped"
    /\ todosFile.format \in {"array", "wrapped"}
          => LoadProjectTodos = todosFile.todos

\* A line carries the glyph; what is left of it without the glyph and the
\* whitespace around; the line without glyphs and blanks at all.
CarriesBox(ln) == \E k \in 1..Len(ln) : ln[k] = Box
Stripped(ln) == LET NotBox(c) == c # Box IN Trim(SelectSeq(ln, NotBox))
Squeezed(ln) == LET Inked(c) == c \notin {Box, " "} IN SelectSeq(ln, Inked)
Qualifies(ln) == CarriesBox(ln) /\ Len(Stripped(ln)) >= 11

\* C33: when a chunk that starts with the "Update Todos" marker has been
\* extracted, the todos produced are, in line order, one for each line that
\* carries the glyph and has at least 11 characters of content, with status
\* "pending", priority "medium" and the ids human-<session>-1..n; a line
\* whose content has 10 characters or fewer gives no todo and takes no
\* ordinal.
C33_HeuristicExtraction ==
    (todoEv.op = "human" /\ todoEv.saved
        /\ Contains(todoEv.data[1], TodoText.updateTodos))
        => LET lines == SelectSeq(Tail(todoEv.data), Qualifies)
               todos == todoEv.incoming
           IN  /\ Len(todos) = Len(lines)
               /\ \A k \in 1..Len(todos) :
                     k <= Len(lines)
                        => /\ todos[k].id = HumanId(todoEv.sessionId, k)
                           /\ todos[k].status = "pending"
                           /\ todos[k].priority = "medium"
                           /\ Squeezed(todos[k].content) = Squeezed(lines[k])

\* ============================================ todos: operations in parallel
\* Pumps and commands are tasks of a multi-threaded runtime. No lock guards
\* LAST_PROCESSED_CONTENT or the todo file, so the test and the store of
\* the former, and the load and the save of the latter, are steps between
\* which other tasks run.
NoJob ==
    [pc |-> "idle", op |-> "none", s |-> 0, data |-> <<>>, id |-> Absent,
     status |-> "none", content |-> <<>>, proceed |-> FALSE, local |-> <<>>]

\* The calls a task may make: the extractor on a chunk, and the commands.
RaceDatas ==
    {<<TodoText.updateTodos, TodoText.boxDocs>>,
     <<TodoText.updateTodos, TodoText.boxBuild, TodoText.boxDocs>>}
JobCalls ==
    {[NoJob EXCEPT !.op = "human", !.s = s, !.data = data] :
        s \in Ids, data \in RaceDatas}
      \cup {[NoJob EXCEPT !.op = "add", !.content = TodoText.build]}
      \cup {[NoJob EXCEPT !.op = "update", !.id = HumanId(s, 1),
                          !.status = "completed"] : s \in Ids}
      \cup {[NoJob EXCEPT !.op = "delete", !.id = HumanId(s, 1)] : s \in Ids}

\* What the operation reads from a file: save_todos_directly a bare array
\* only, load_project_todos either format.
Loaded(j, file) ==
    IF j.op = "human"
    THEN IF file.format = "array" THEN file.todos ELSE <<>>
    ELSE file.todos

\* update_todo_status finds its todo in what it loaded.
Hits(j, todos) == {k \in 1..Len(todos) : todos[k].id = j.id}

\* The list the operation writes, given what it loaded.
Modified(j, todos) ==
    CASE j.op = "human" -> MergeTodos(todos, HumanParsed[j.s, j.data])
      [] j.op = "add" ->
            Append(todos, [id |-> j.id, content |-> j.content,
                           status |-> "pending", priority |-> "low"])
      [] j.op = "update" ->
            LET first == CHOOSE k \in Hits(j, todos) :
                            \A h \in Hits(j, todos) : k <= h
            IN  [todos EXCEPT ![first].status = j.status]
      [] j.op = "delete" -> Retain(todos, j.id)

\* The operation gets as far as writing the file.
Writes(j, todos) ==
    CASE j.op = "human" ->
            j.proceed /\ HumanParsed[j.s, j.data] # <<>> /\ Registered(j.s)
      [] j.op = "update" -> Hits(j, todos) # {}
      [] OTHER -> TRUE

Written(j, todos) ==
    [format |-> IF j.op = "human" THEN "array" ELSE "wrapped",
     todos |-> Modified(j, todos)]

\* The file after the whole operation, run on its own.
Effect(j, file) ==
    IF Writes(j, Loaded(j, file)) THEN Written(j, Loaded(j, file)) ELSE file

RaceFrame == UNCHANGED <<sessVars, ioVars, codecVars, trackVars, pathVars, lkVars,
                         todoEv>>
InFlight == {t \in Tasks : job[t].pc \notin {"idle", "done"}}
Done == {t \in Tasks : job[t].pc = "done"}

\* A pump calls the extractor, or the front end a command. With nothing
\* else in flight the finished operations are forgotten.
JobInvoke(t, j) ==
    /\ job[t].pc = "idle"
    /\ job' = [job EXCEPT ![t] = [j EXCEPT !.pc = IF j.op = "human"
                                                  THEN "check" ELSE "load"]]
    /\ UNCHANGED <<todosFile, uuids, lastProcessed, base, lastGiven>>
    /\ RaceFrame

\* handle_human_readable_todos: `if last == terminal_data { return Ok(()) }`.
HumanCheck(t) ==
    /\ job[t].pc = "check"
    /\ job' = [job EXCEPT ![t].proceed = (lastProcessed # job[t].data),
                          ![t].pc = "store"]
    /\ lastGiven' = job[t].data
    /\ UNCHANGED <<todosFile, uuids, lastProcessed, base>>
    /\ RaceFrame

\* The return of a duplicate, or `LAST_PROCESSED_CONTENT = Some(..)`, the
\* marker test, the parse and get_session_project_path.
HumanStore(t) ==
    /\ job[t].pc = "store"
    /\ IF job[t].proceed
       THEN /\ lastProcessed' = job[t].data
            /\ job' = [job EXCEPT ![t].pc = IF Writes(job[t], <<>>)
                                            THEN "load" ELSE "done"]
       ELSE /\ job' = [job EXCEPT ![t].pc = "done"]
            /\ UNCHANGED lastProcessed
    /\ UNCHANGED <<todosFile, uuids, base, lastGiven>>
    /\ RaceFrame

\* The operation reads the file: save_todos_directly its bare array, a
\* command through load_project_todos. add_todo then draws its uuid.
JobLoad(t) ==
    /\ job[t].pc = "load"
    /\ LET todos == Loaded(job[t], todosFile) IN
       /\ job[t].op = "add" => uuids < MaxUuid
       /\ uuids' = IF job[t].op = "add" THEN uuids + 1 ELSE uuids
       /\ job' = [job EXCEPT
                    ![t].local = todos,
                    ![t].id = IF job[t].op = "add" THEN UuidId(uuids + 1)
                              ELSE job[t].id,
                    ![t].pc = IF Writes(job[t], todos) THEN "save"
                              ELSE "done"]
    /\ UNCHANGED <<todosFile, lastProcessed, base, lastGiven>>
    /\ RaceFrame

\* The operation writes the file from what it loaded.
JobSave(t) ==
    /\ job[t].pc = "save"
    /\ Len(Modified(job[t], job[t].local)) <= MaxStore
    /\ todosFile' = Written(job[t], job[t].local)
    /\ job' = [job EXCEPT ![t].pc = "done"]
    /\ UNCHANGED <<uuids, lastProcessed, base, lastGiven>>
    /\ RaceFrame

\* Every operation has returned: the next ones start from this file.
JobsReturn ==
    /\ InFlight = {}
    /\ Done # {}
    /\ job' = [t \in Tasks |-> NoJob]
    /\ base' = todosFile
    /\ UNCHANGED <<todosFile, uuids, lastProcessed, lastGiven>>
    /\ RaceFrame

TodoRaceNext ==
    \/ \E t \in Tasks, j \in JobCalls : JobInvoke(t, j)
    \/ \E t \in Tasks : HumanCheck(t)
    \/ \E t \in Tasks : HumanStore(t)
    \/ \E t \in Tasks : JobLoad(t)
    \/ \E t \in Tasks : JobSave(t)
    \/ JobsReturn

\* A registered session or none, no todo file, nothing processed yet.
InitTodoRace ==
    /\ InitLive
    /\ InitTracker
    /\ InitTodos
    /\ InitPath
    /\ InitLocks
    /\ line = [form |-> "text", raw |-> <<>>]
    /\ out = [kind |-> "pending"]
    /\ lastProcessed = Absent
    /\ lastGiven = Absent
    /\ job = [t \in Tasks |-> NoJob]
    /\ base = todosFile
TodoRaceSpec == InitTodoRace /\ [][TodoRaceNext]_vars

RECURSIVE Serial(_, _)
Serial(S, file) ==
    IF S = {} THEN {file}
    ELSE UNION {Serial(S \ {t}, Effect(job[t], file)) : t \in S}

\* C37: operations on the todo file of one project are atomic with respect
\* to each other: when a command has run in parallel with an extraction or
\* with another command, the file is what the operations leave when run
\* one after the other in some order, so no todo written by one is lost.
C37_TodoUpdatesAtomic ==
    (InFlight = {} /\ Done # {}) => todosFile \in Serial(Done, base)

\* ===================================================== locks and their order
\* Every operation as the sequence of its lock operations. The locks: the
\* registry TERMINAL_SESSIONS ("R") and ACTIVE_OUTPUT_HANDLERS ("H"), both
\* tokio RwLocks, and the three tokio Mutexes of a session: pty_master
\* ("P"), pty_writer ("W") and child_process ("C"). A Mutex is a lock that
\* is only ever held in mode "write".
Locks == {"R", "H", "P", "W", "C"}

\* lock.read().await / write().await / lock().await; try_lock() and
\* try_read(), which go to `to` when they fail; a try_read() by a task that
\* holds a read guard already; the drop of a guard; a branch of the code
\* that may be taken; a jump.
Acq(l, m) == [k |-> "acq", l |-> l, m |-> m, to |-> 0]
Try(l, m, to) == [k |-> "try", l |-> l, m |-> m, to |-> to]
Chk(l, to) == [k |-> "chk", l |-> l, m |-> "read", to |-> to]
Rel(l) == [k |-> "rel", l |-> l, m |-> "none", to |-> 0]
Opt(to) == [k |-> "opt", l |-> "R", m |-> "none", to |-> to]
Jmp(to) == [k |-> "jmp", l |-> "R", m |-> "none", to |-> to]

\* start_claude_session: store the session, then reserve and spawn.
StartProgram ==
    <<Acq("R", "write"), Rel("R"), Acq("H", "write"), Rel("H")>>

\* resume_claude_session: the health check under the read guard (1-7), the
\* cleanup with the handler set taken inside the write guard (8-14), the
\* store and the spawn (16-19).
ResumeProgram ==
    <<Acq("R", "read"), Opt(6), Chk("R", 6), Try("C", "write", 6), Rel("C"),
      Rel("R"), Opt(20),
      Acq("R", "write"), Opt(14), Try("C", "write", 12), Rel("C"),
      Acq("H", "write"), Rel("H"), Rel("R"), Opt(20),
      Acq("R", "write"), Rel("R"), Acq("H", "write"), Rel("H")>>

\* A pump that gives up the handler set only after a look at the registry:
\* a deliberately wrong order of the two locks.
PumpProgramNested ==
    <<Acq("R", "read"), Rel("R"), Opt(11),
      Acq("P", "write"), Rel("P"), Opt(11), Opt(4),
      Acq("R", "read"), Rel("R"), Jmp(4),
      Acq("H", "write"), Acq("R", "read"), Rel("R"), Rel("H")>>

\* write_to_terminal: verify_claude_health (1-5), then the writer under the
\* read guard.
WriteProgram ==
    <<Try("R", "read", 6), Opt(5), Try("C", "write", 5), Rel("C"), Rel("R"),
      Opt(12),
      Acq("R", "read"), Opt(11), Acq("W", "write"), Rel("W"), Rel("R")>>

\* resize_terminal: pty_master under the read guard.
ResizeProgram ==
    <<Acq("R", "read"), Opt(5), Acq("P", "write"), Rel("P"), Rel("R")>>

\* close_terminal_session: remove and kill under the write guard.
CloseProgram ==
    <<Acq("R", "write"), Opt(5), Try("C", "write", 5), Rel("C"), Rel("R")>>

\* handle_pty_output_no_check in its spawned wrapper: the lookup (1-3), the
\* loop with try_clone_reader under pty_master (4-6) and the todo
\* extraction's get_session_project_path (8-9), and the removal from the
\* handler set at the end or on failure (11-12).
PumpProgram ==
    <<Acq("R", "read"), Rel("R"), Opt(11),
      Acq("P", "write"), Rel("P"), Opt(11), Opt(4),
      Acq("R", "read"), Rel("R"), Jmp(4),
      Acq("H", "write"), Rel("H")>>

Programs ==
    [start |-> StartProgram, resume |-> ResumeProgram, write |-> WriteProgram,
     resize |-> ResizeProgram, close |-> CloseProgram, pump |-> PumpProgram]
ProgramsOf(p) ==
    IF p \in Tasks THEN {"start", "resume", "write", "resize", "close"}
    ELSE {"pump"}

Idle(p) == lkAt[p].prog = "none"
Instr(p) == Programs[lkAt[p].prog][lkAt[p].at]
Waits(p, l) == \E k \in 1..Len(lkQueue[l]) : lkQueue[l][k].proc = p
Waiting(p) == \E l \in Locks : Waits(p, l)

\* The position after the instruction: past the last one the operation has
\* returned.
At(p, n) ==
    IF n > Len(Programs[lkAt[p].prog]) THEN [prog |-> "none", at |-> 0]
    ELSE [prog |-> lkAt[p].prog, at |-> n]
Move(p, n) == lkAt' = [lkAt EXCEPT ![p] = At(p, n)]

\* try_lock / try_read succeed on a lock that nobody waits for and no
\* conflicting guard holds.
TryGrant(l, m) == lkQueue[l] = <<>> /\ CanGrant(m, lkHeld[l])

LockInvoke(p, name) ==
    /\ Idle(p)
    /\ lkAt' = [lkAt EXCEPT ![p] = [prog |-> name, at |-> 1]]
    /\ UNCHANGED <<lkHeld, lkQueue>>

\* The next lock operation of a task that is not waiting.
LockStep(p) ==
    /\ ~Idle(p)
    /\ ~Waiting(p)
    /\ LET i == Instr(p)
           l == i.l
           n == lkAt[p].at + 1
       IN  CASE i.k = "acq" ->
                  /\ IF TryGrant(l, i.m)
                     THEN /\ lkHeld' = [lkHeld EXCEPT ![l][p] = i.m]
                          /\ UNCHANGED lkQueue
                     ELSE /\ lkQueue' =
                               [lkQueue EXCEPT
                                  ![l] = Append(@, [proc |-> p, mode |-> i.m])]
                          /\ UNCHANGED lkHeld
                  /\ Move(p, n)
             [] i.k = "try" ->
                  IF TryGrant(l, i.m)
                  THEN /\ lkHeld' = [lkHeld EXCEPT ![l][p] = i.m]
                       /\ Move(p, n)
                       /\ UNCHANGED lkQueue
                  ELSE Move(p, i.to) /\ UNCHANGED <<lkHeld, lkQueue>>
             [] i.k = "chk" ->
                  /\ Move(p, IF TryGrant(l, i.m) THEN n ELSE i.to)
                  /\ UNCHANGED <<lkHeld, lkQueue>>
             [] i.k = "rel" ->
                  LET g == Grant(lkQueue[l], [lkHeld[l] EXCEPT ![p] = "none"])
                  IN  /\ lkQueue' = [lkQueue EXCEPT ![l] = g[1]]
                      /\ lkHeld' = [lkHeld EXCEPT ![l] = g[2]]
                      /\ Move(p, n)
             [] i.k = "opt" ->
                  /\ \E to \in {n, i.to} : Move(p, to)
                  /\ UNCHANGED <<lkHeld, lkQueue>>
             [] i.k = "jmp" ->
                  Move(p, i.to) /\ UNCHANGED <<lkHeld, lkQueue>>

LockFrame == UNCHANGED <<sessVars, ioVars, codecVars, trackVars, todoVars,
                         pathVars, raceVars>>
LockNext ==
    \/ \E p \in Procs :
          \E name \in ProgramsOf(p) : LockInvoke(p, name) /\ LockFrame
    \/ \E p \in Procs : LockStep(p) /\ LockFrame

InitLockSpec ==
    /\ InitSessions
    /\ InitTracker
    /\ InitTodos
    /\ InitPath
    /\ InitRace
    /\ line = [form |-> "text", raw |-> <<>>]
    /\ out = [kind |-> "pending"]
    /\ lkHeld = [l \in Locks |-> [p \in Procs |-> "none"]]
    /\ lkQueue = [l \in Locks |-> <<>>]
    /\ lkAt = [p \in Procs |-> [prog |-> "none", at |-> 0]]
LockSpec == InitLockSpec /\ [][LockNext]_vars

\* The tasks that have to act before p gets the lock it waits for: the
\* holders of a conflicting guard and the waiters ahead of it.
Blockers(p) ==
    UNION {LET q == lkQueue[l]
               k == CHOOSE j \in 1..Len(q) : q[j].proc = p
           IN  {q[j].proc : j \in 1..(k - 1)}
                 \cup {h \in Procs \ {p} :
                          \/ lkHeld[l][h] = "write"
                          \/ lkHeld[l][h] = "read" /\ q[k].mode = "write"}
           : l \in {x \in Locks : Waits(p, x)}}

\* The largest set of waiting tasks within W each of which waits for tasks
\* of the set only, or for a guard of a task that has returned: these
\* tasks wait for ever.
RECURSIVE Stuck(_)
Stuck(W) ==
    LET gone == {h \in Procs : Idle(h)}
        S == {p \in W : Blockers(p) \subseteq (W \cup gone)}
    IN  IF S = W THEN W ELSE Stuck(S)
Deadlocked == Stuck({p \in Procs : Waiting(p)})
HeldBy(p) == {l \in Locks : lkHeld[l][p] # "none"}
Wants(p) == HeldBy(p) \cup {l \in Locks : Waits(p, l)}

\* C36: no interleaving of start, resume, write, resize, close, health
\* checks, pumps and todo extraction deadlocks on the locks; a task that
\* goes for a second lock holds the registry and goes for the handler set
\* or a lock of a session; nobody ever waits for a child lock.
C36_NoDeadlockOneLockOrder ==
    [][/\ Deadlocked' = {}
       /\ lkQueue'["C"] = <<>>
       /\ \A p \in Procs : \A l \in Wants(p)' \ Wants(p) :
             Wants(p) # {} => (Wants(p) = {"R"} /\ l # "R")]_vars

\* A resume waits for the handler set with the registry's write guard in
\* hand, while another task waits for the registry.
C36_NestedWaitReached ==
    \E p \in Tasks :
        /\ lkHeld["R"][p] = "write"
        /\ Waits(p, "H")
        /\ lkQueue["R"] # <<>>

\* C35: an id is in the handler set exactly while a pump task for that id
\* is reserved or spawned and has not ended, and the end of one pump never
\* takes the id out of the set while another pump of the same id runs.
C35_HandlerSetTracksPumps ==
    [][/\ \A i \in Ids : (i \in handlers') <=> (PumpsOf(i)' # {})
       /\ \A e \in Entries :
             (PumpRunning(e) /\ ~PumpRunning(e)')
                => \A o \in Entries \ {e} :
                      (entryId[o] = entryId[e] /\ PumpRunning(o)')
                         => entryId[e] \in handlers']_vars

CreateErrors == {"path_error", "spawn_error"}

\* C38: resume is not atomic on failure. Its cleanup of a registered entry
\* removes the entry, kills the child and leaves the id out of the
\* registry; a failure after that returns the error and puts nothing back,
\* so the id is absent afterwards (no other command having stored it). The
\* cleanup of an id without entry, and the failure after it, leave the
\* registry as it was.
C38_ResumeFailureLeavesTeardown ==
    [][\A t \in Tasks :
          op[t] = "resume"
            => /\ (pc[t] = "r_clean" /\ pc'[t] = "r_kill")
                     => sessions'[sid[t]] = 0
               /\ (pc[t] = "r_kill" /\ pc'[t] = "r_create")
                     => /\ sessions'[sid[t]] = 0
                        /\ child'[cur[t]] = "exited"
               /\ (pc[t] = "r_clean" /\ pc'[t] = "r_create")
                     => /\ sessions[sid[t]] = 0
                        /\ sessions' = sessions
                        /\ child' = child
               /\ (pc[t] = "r_create" /\ pc'[t] = "idle")
                     => /\ ev'.ret \in CreateErrors
                        /\ sessions' = sessions
                        /\ child' = child
                        /\ solo[t] => sessions'[sid[t]] = 0]_vars

\* A resume of a session whose child had exited has failed after its
\* cleanup, and the id has no entry.
C38_FailedAfterTeardown ==
    /\ ev.op = "resume"
    /\ ev.ret \in CreateErrors
    /\ ev.pre = "dead"
    /\ ev.solo
    /\ sessions[ev.id] = 0
    /\ \E e \in Entries : entryId[e] = ev.id /\ child[e] = "exited"

\* ============================================ sessions side by side
\* The commands and pumps of Spec next to the session of another window,
\* which is registered with a running child and a reading pump, and which
\* no command names.
InitFrame ==
    /\ sessions = [i \in AllIds |-> IF i = Foreign THEN 1 ELSE 0]
    /\ handlers = {Foreign}
    /\ rwHeld = [p \in Procs |-> "none"]
    /\ rwQueue = <<>>
    /\ childLock = [e \in Entries |-> 0]
    /\ child = [e \in Entries |-> IF e = 1 THEN "running" ELSE "unborn"]
    /\ nEntries = 1
    /\ entryId = [e \in Entries |-> IF e = 1 THEN Foreign ELSE 0]
    /\ pump = [e \in Entries |->
                 IF e = 1 THEN [pc |-> "read", pty |-> 1]
                 ELSE [pc |-> "none", pty |-> 0]]
    /\ pc = [t \in Tasks |-> "idle"]
    /\ op = [t \in Tasks |-> "none"]
    /\ sid = [t \in Tasks |-> 0]
    /\ cur = [t \in Tasks |-> 0]
    /\ pre = [t \in Tasks |-> "none"]
    /\ solo = [t \in Tasks |-> FALSE]
    /\ streak = [i \in AllIds |-> 0]
    /\ closedIds = {}
    /\ ev = NoEv
    /\ ptyBuf = <<>>
    /\ ppc = "off"
    /\ chunk = <<>>
    /\ li = 0
    /\ published = <<>>
    /\ failed = {}
    /\ nOut = 0
    /\ InitTracker
    /\ InitTodos
    /\ InitPath
    /\ InitLocks
    /\ InitRace
    /\ line = [form |-> "text", raw |-> <<>>]
    /\ out = [kind |-> "pending"]
FrameSpec == InitFrame /\ [][Next]_vars

\* The step is one of an operation on id a: of a command that names a, or
\* of a pump of a.
StepOn(a) ==
    \/ \E t \in Tasks : pc'[t] # pc[t] /\ a \in {sid[t], sid'[t]}
    \/ \E e \in Entries : pump'[e] # pump[e] /\ a \in {entryId[e], entryId'[e]}

\* The registry entry, the child state or the handler set membership of id
\* b changes in the step.
Changed(b) ==
    \/ sessions'[b] # sessions[b]
    \/ (b \in handlers') # (b \in handlers)
    \/ \E e \in Entries : entryId[e] = b /\ child'[e] # child[e]

\* C39: an operation on one session (write, resize, close, resume, start,
\* the end of its pump) leaves the registry entry, the child state and the
\* handler set membership of every other id as they were.
C39_OtherSessionsUntouched ==
    [][\A a, b \in AllIds : (a # b /\ StepOn(a)) => ~Changed(b)]_vars

\* A session was closed and its child killed next to the registered
\* session of the other window.
C39_ClosedNextToForeign ==
    /\ ev.op = "close"
    /\ ev.ret = "ok"
    /\ ev.kill = "ok"
    /\ ev.id # Foreign
    /\ sessions[Foreign] # 0
    /\ Foreign \in handlers

\* ============================================ todos: chunk after chunk
\* The heuristic todos of session s in a list, in stored order.
HumanOf(s, todos) ==
    LET Mine(t) == t.id[1] = "human" /\ t.id[2] = s IN SelectSeq(todos, Mine)

\* The todos of a list stored under an id.
StoredUnder(todos, id) ==
    LET Same(t) == t.id = id IN SelectSeq(todos, Same)

\* The step saves the extraction of a chunk of session s right after the
\* extraction of a different chunk of s was saved.
SecondChunk(s) ==
    /\ todoEv.op = "human" /\ todoEv.saved /\ todoEv.sessionId = s
    /\ todoEv'.op = "human" /\ todoEv'.saved /\ todoEv'.sessionId = s
    /\ todoEv'.data # todoEv.data

\* The larger of two numbers.
Larger(m, n) == IF m > n THEN m ELSE n

====
